---------------------------- MODULE Spec2Model ----------------------------
(***************************************************************************)
(* Motion estimation core of rav1e (src/src/me.rs): the SAD kernel, the    *)
(* MV-rate model, the RD cost, the EPZS predictor collector, the diamond   *)
(* search, the full search, the telescopic sub-pel search and the          *)
(* multi-resolution drivers.                                               *)
(*                                                                         *)
(* A MotionVector is a record [row, col] of 16-bit signed integers in      *)
(* eighth-pel units.  TLC integers are 32 bits wide: u64::MAX, which the   *)
(* code uses only as the "infinite cost" sentinel, is represented by the   *)
(* largest TLC integer; every finite cost of the model stays below it.     *)
(***************************************************************************)
EXTENDS Integers, Sequences, FiniteSets, TLC

VARIABLES
  fi,           \* FrameInvariants: frame size, flags, lambda, reference slots
  ts,           \* TileStateMut: tile geometry, planes, MV grids
  pc,           \* position of the running entry point
  call,         \* arguments of the running entry point
  ret,          \* value returned by the entry point
  best_mv,      \* best_mv / center_mv (the searches update it by reference)
  lowest_cost,  \* lowest_cost / center_mv_cost (updated by reference)
  search        \* locals of the running search (range, radius, predictors, ...)

vars == <<fi, ts, pc, call, ret, best_mv, lowest_cost, search>>

---------------------------------------------------------------------------
(* Bounds of the model.                                                    *)

MaxWInB == 3      \* fi.w_in_b: frame width in MI units
MaxHInB == 2      \* fi.h_in_b: frame height in MI units
MaxBsize == 3     \* block sizes BlockSizes[1..MaxBsize]

---------------------------------------------------------------------------
(* Integer helpers: Rust's fixed-width arithmetic.                         *)

Min(a, b) == IF a <= b THEN a ELSE b
Max(a, b) == IF a >= b THEN a ELSE b
Abs(a) == IF a < 0 THEN -a ELSE a

\* i16 arithmetic wraps (two's complement).
WrapI16(x) == ((x + 32768) % 65536) - 32768

\* Rust's `/` on signed integers truncates toward zero.
TruncDiv(a, b) == IF a >= 0 THEN a \div b ELSE -((-a) \div b)

\* Rust's `>>` on signed integers is an arithmetic shift (floor).
Shr(a, k) == a \div (2 ^ k)

\* i16::abs: wraps on i16::MIN.
AbsI16(d) == WrapI16(Abs(d))

\* i16::leading_zeros: leading zero bits of the 16-bit two's complement pattern.
RECURSIVE BitLen(_)
BitLen(n) == IF n = 0 THEN 0 ELSE 1 + BitLen(n \div 2)

leading_zeros(d) == 16 - BitLen(IF d >= 0 THEN d ELSE d + 65536)

MV(r, c) == [row |-> r, col |-> c]
MvZero == MV(0, 0)
is_zero(mv) == mv.row = 0 /\ mv.col = 0

\* u64::MAX, the infinite cost.
U64_MAX == 2147483647

---------------------------------------------------------------------------
(* MV-rate model: get_mv_rate and its inner diff_to_rate.                  *)

diff_to_rate_noabs(diff, allow_high_precision_mv) ==
  LET d == IF allow_high_precision_mv THEN diff ELSE Shr(diff, 1)
  IN  IF d = 0 THEN 0 ELSE 2 * (16 - leading_zeros(d))

diff_to_rate(diff, allow_high_precision_mv) ==
  LET d == IF allow_high_precision_mv THEN diff ELSE Shr(diff, 1)
  IN  IF d = 0 THEN 0 ELSE 2 * (16 - leading_zeros(AbsI16(d)))

get_mv_rate_rowonly(a, b, allow_high_precision_mv) ==
  diff_to_rate(WrapI16(a.row - b.row), allow_high_precision_mv)

\* The value returned when no overflow check aborts the call: the i16
\* subtractions and i16::abs wrap.
get_mv_rate(a, b, allow_high_precision_mv) ==
    diff_to_rate(WrapI16(a.row - b.row), allow_high_precision_mv)
  + diff_to_rate(WrapI16(a.col - b.col), allow_high_precision_mv)

\* Whether an arithmetic overflow occurs inside get_mv_rate(a, b, ..): in
\* `a.row - b.row`, in `a.col - b.col`, or in `d.abs()` for d = i16::MIN.
\* A build with overflow checks aborts there; one without them wraps.
get_mv_rate_overflows(a, b, allow_high_precision_mv) ==
  \/ a.row - b.row # WrapI16(a.row - b.row)
  \/ a.col - b.col # WrapI16(a.col - b.col)
  \/ allow_high_precision_mv /\ (a.row - b.row = -32768 \/ a.col - b.col = -32768)

\* The outcome of one call of get_mv_rate in a build with
\* (overflow_checks = TRUE) or without overflow checks.
get_mv_rate_outcome(a, b, allow_high_precision_mv, overflow_checks) ==
  IF overflow_checks /\ get_mv_rate_overflows(a, b, allow_high_precision_mv)
  THEN [panic |-> TRUE, rate |-> 0]
  ELSE [panic |-> FALSE, rate |-> get_mv_rate(a, b, allow_high_precision_mv)]

---------------------------------------------------------------------------
(* SAD kernel (native::get_sad).  A PlaneRegion is the sequence of its rows *)
(* (rows_iter), each row the sequence of its samples as i32::cast_from     *)
(* reads them.  take(n) and zip stop at the shortest operand.  No u32 sum  *)
(* can wrap: 65535 * 128 * 128 < 2^31.                                     *)

\* T::cast_from(val) for a Pixel type of `bytes` bytes (u8 or u16).
cast_from(val, bytes) == val % (IF bytes = 1 THEN 256 ELSE 65536)

\* .iter().take(blk_w).zip(slice_ref).map(|a, b| (a - b).abs() as u32).sum()
RECURSIVE row_sad(_, _, _)
row_sad(slice_org, slice_ref, n) ==
  IF n = 0 THEN 0
  ELSE Abs(slice_org[n] - slice_ref[n]) + row_sad(slice_org, slice_ref, n - 1)

RECURSIVE rows_sad(_, _, _, _)
rows_sad(plane_org, plane_ref, blk_w, n) ==
  IF n = 0 THEN 0
  ELSE LET slice_org == plane_org[n]
           slice_ref == plane_ref[n]
           k == Min(Min(blk_w, Len(slice_org)), Len(slice_ref))
       IN  row_sad(slice_org, slice_ref, k) + rows_sad(plane_org, plane_ref, blk_w, n - 1)

get_sad_offbyone(plane_org, plane_ref, blk_w, blk_h, bit_depth) ==
  rows_sad(plane_org, plane_ref, blk_w - 1,
           Min(Min(blk_h, Len(plane_org)), Len(plane_ref)))

get_sad(plane_org, plane_ref, blk_w, blk_h, bit_depth) ==
  rows_sad(plane_org, plane_ref, blk_w,
           Min(Min(blk_h, Len(plane_org)), Len(plane_ref)))

---------------------------------------------------------------------------
(* RD cost, as written at its three sites.                                 *)

\* pmv is the pair [MotionVector; 2], indexed from 1 here.
compute_mv_rd_cost_bias0(allow_high_precision_mv, pmv, lambda, bit_depth, blk_w, blk_h, cand_mv, plane_org, plane_ref) ==
  LET sad   == get_sad(plane_org, plane_ref, blk_w, blk_h, bit_depth)
      rate1 == get_mv_rate(cand_mv, pmv[1], allow_high_precision_mv)
      rate2 == get_mv_rate(cand_mv, pmv[2], allow_high_precision_mv)
      rate  == Min(rate1 + 1, rate2)
  IN  256 * sad + rate * lambda

compute_mv_rd_cost_sumrate(allow_high_precision_mv, pmv, lambda, bit_depth, blk_w, blk_h, cand_mv, plane_org, plane_ref) ==
  LET sad   == get_sad(plane_org, plane_ref, blk_w, blk_h, bit_depth)
      rate1 == get_mv_rate(cand_mv, pmv[1], allow_high_precision_mv)
      rate2 == get_mv_rate(cand_mv, pmv[2], allow_high_precision_mv)
  IN  256 * sad + (rate1 + rate2 + 1) * lambda

compute_mv_rd_cost(allow_high_precision_mv, pmv, lambda, bit_depth, blk_w, blk_h, cand_mv, plane_org, plane_ref) ==
  LET sad   == get_sad(plane_org, plane_ref, blk_w, blk_h, bit_depth)
      rate1 == get_mv_rate(cand_mv, pmv[1], allow_high_precision_mv)
      rate2 == get_mv_rate(cand_mv, pmv[2], allow_high_precision_mv)
      rate  == Min(rate1, rate2 + 1)
  IN  256 * sad + rate * lambda

\* The cost expression inside telescopic_subpel_search.
telescopic_cost(allow_high_precision_mv, pmv, lambda, cand_mv, sad) ==
  LET rate1 == get_mv_rate(cand_mv, pmv[1], allow_high_precision_mv)
      rate2 == get_mv_rate(cand_mv, pmv[2], allow_high_precision_mv)
      rate  == Min(rate1, rate2 + 1)
      cost  == 256 * sad + rate * lambda
  IN  cost

\* The cost expression inside full_search's closure.
full_search_cost(allow_high_precision_mv, pmv, lambda, mv, sad) ==
  LET rate1 == get_mv_rate(mv, pmv[1], allow_high_precision_mv)
      rate2 == get_mv_rate(mv, pmv[2], allow_high_precision_mv)
      rate  == Min(rate1, rate2 + 1)
      cost  == 256 * sad + rate * lambda
  IN  cost

---------------------------------------------------------------------------
(* Planes.  A plane is described by its content pattern; Pixel gives the    *)
(* sample at integer plane coordinates (the padding is taken to cover every *)
(* position a search reads).  The half- and quarter-resolution planes hold *)
(* the pattern at every 2nd / 4th position.                                *)

Clip(v, lo, hi) == Max(lo, Min(hi, v))

Pattern(kind, x, y) ==
  CASE kind = "flat"    -> 128
    [] kind = "ramp"    -> Clip(100 + 3 * x + 2 * y, 0, 255)
    [] kind = "texture" -> (x * x + 3 * y * y + 5 * x * y + 7 * x) % 256
    [] kind = "sum"     -> (x + y) % 256
    [] kind = "diff"    -> (x - y) % 256

PatternKinds == {"flat", "ramp", "texture", "sum", "diff"}

\* The sample arrays, one per pattern, over every position the model reads.
PlaneSpan == 8 * MaxWInB + 8 * MaxHInB + 100
PlaneData == [kind \in PatternKinds |-> [x \in (-PlaneSpan)..PlaneSpan |-> [y \in (-PlaneSpan)..PlaneSpan |-> Pattern(kind, x, y)]]]

\* A Plane<T>: pattern kind, translation (tx, ty) in full-resolution pixels,
\* subsampling scale (1 = full, 2 = hres, 4 = qres).
Plane(kind, tx, ty, scale) == [kind |-> kind, tx |-> tx, ty |-> ty, scale |-> scale]

Pixel(plane, x, y) ==
  PlaneData[plane.kind][plane.scale * x - plane.tx][plane.scale * y - plane.ty]

\* p.region(Area::StartingAt { x, y }), restricted to the w x h samples
\* a block comparison reads.
Region(plane, x, y, w, h) ==
  [r \in 1..h |-> [c \in 1..w |-> Pixel(plane, x + c - 1, y + r - 1)]]

\* The input / reference planes of a tile for each content of the model.
InputPlane(content, scale) ==
  CASE content = "same"   -> Plane("texture", 0, 0, scale)
    [] content = "shift"  -> Plane("texture", 0, 0, scale)
    [] content = "far"    -> Plane("ramp", 0, 0, scale)
    [] content = "farneg" -> Plane("ramp", 0, 0, scale)
    [] content = "test"   -> Plane("sum", 0, 0, scale)
    [] content = "flat"   -> Plane("flat", 0, 0, scale)

RecPlane(content, scale) ==
  CASE content = "same"   -> Plane("texture", 0, 0, scale)
    [] content = "shift"  -> Plane("texture", 1, 0, scale)
    [] content = "far"    -> Plane("ramp", 60, -50, scale)
    [] content = "farneg" -> Plane("ramp", -16, 24, scale)
    [] content = "test"   -> Plane("diff", 0, 0, scale)
    [] content = "flat"   -> Plane("flat", 0, 0, scale)

\* PredictionMode::NEWMV.predict_inter into the scratch plane: the reference
\* samples displaced by the eighth-pel cand_mv, interpolated bilinearly.
predict_inter(p_ref, po, blk_w, blk_h, cand_mv) ==
  [r \in 1..blk_h |-> [c \in 1..blk_w |->
     LET X  == 8 * (po.x + c - 1) + cand_mv.col
         Y  == 8 * (po.y + r - 1) + cand_mv.row
         ix == X \div 8
         iy == Y \div 8
         fx == X % 8
         fy == Y % 8
     IN  ( (8 - fx) * (8 - fy) * Pixel(p_ref, ix, iy)
         + fx * (8 - fy) * Pixel(p_ref, ix + 1, iy)
         + (8 - fx) * fy * Pixel(p_ref, ix, iy + 1)
         + fx * fy * Pixel(p_ref, ix + 1, iy + 1) + 32) \div 64 ]]

---------------------------------------------------------------------------
(* MV grids.  FrameMotionVectors is a row-major grid of cols x rows; a      *)
(* TileMotionVectors is a window (x, y, cols, rows) onto one.               *)

\* MotionVector operators used by the collector.
quantize_to_fullpel(mv) == MV(TruncDiv(mv.row, 8) * 8, TruncDiv(mv.col, 8) * 8)
MvAdd(a, b) == MV(WrapI16(a.row + b.row), WrapI16(a.col + b.col))
MvDiv(a, n) == MV(TruncDiv(a.row, n), TruncDiv(a.col, n))

\* Content of the grids of the model: the MV stored at frame position (x, y).
MvPalette == << MV(0, 0), MV(8, -16), MV(-21, 5), MV(0, 400), MV(-24, 0), MV(3, 3) >>

GridMv(seed, x, y) ==
  IF seed = 0 THEN MvZero
  ELSE MvPalette[((seed * x + (seed \div 4 + 1) * y + seed) % Len(MvPalette)) + 1]

\* FrameMotionVectors::new(cols, rows), holding the content `seed`.
FrameMotionVectors(cols, rows, seed) == [cols |-> cols, rows |-> rows, seed |-> seed]

\* Index<usize> for FrameMotionVectors followed by the slice index:
\* fmv[index][x] reads mvs[index * cols + x] and is in bounds iff the row
\* slice lies in the storage and x lies in the row slice.
fmv_in_bounds(fmv, index, x) ==
  /\ index >= 0 /\ x >= 0
  /\ (index + 1) * fmv.cols <= fmv.cols * fmv.rows
  /\ x < fmv.cols

fmv_index(fmv, index, x) == GridMv(fmv.seed, x, index)

\* TileMotionVectors: tile_mvs[y][x] with tile-relative coordinates.
TileMotionVectors(fmv, x, y, cols, rows) ==
  [fmv |-> fmv, x |-> x, y |-> y, cols |-> cols, rows |-> rows]

tile_in_bounds(tile_mvs, y, x) ==
  /\ y >= 0 /\ x >= 0 /\ y < tile_mvs.rows /\ x < tile_mvs.cols
  /\ fmv_in_bounds(tile_mvs.fmv, tile_mvs.y + y, tile_mvs.x + x)

tile_index(tile_mvs, y, x) == fmv_index(tile_mvs.fmv, tile_mvs.y + y, tile_mvs.x + x)

---------------------------------------------------------------------------
(* Predictor collector (get_subset_predictors).  The result records the    *)
(* ArrayVec (predictors), the number of push calls made on it (a push on a *)
(* full ArrayVec aborts) and whether every grid read was in bounds.        *)

\* Capacity of ArrayVec<[MotionVector; 11]>.
PredictorsCap == 11

\* predictors.push(mv): the list, and the count of pushes made so far.
push(acc, mv) ==
  [v |-> IF Len(acc.v) < PredictorsCap THEN Append(acc.v, mv) ELSE acc.v,
   n |-> acc.n + 1]

push_nonzero_always(acc, present, mv) == IF present THEN push(acc, mv) ELSE acc

\* if !mv.is_zero() { predictors.push(mv); }, under the guard `present`.
push_nonzero(acc, present, mv) ==
  IF present /\ ~is_zero(mv) THEN push(acc, mv) ELSE acc

RECURSIVE MvSum(_)
MvSum(seq) == IF seq = <<>> THEN MvZero ELSE MvAdd(MvSum(Tail(seq)), Head(seq))

NoFrameRef == [some |-> FALSE, frame_mvs |-> <<>>]

top_right_guard_offbyone(tile_bo, tile_mvs) == tile_bo.y > 0 /\ tile_bo.x < tile_mvs.cols

\* `if tile_bo.x < tile_mvs.cols() - 1`, nested in `if tile_bo.y > 0`.
top_right_guard(tile_bo, tile_mvs) == tile_bo.y > 0 /\ tile_bo.x < tile_mvs.cols - 1

get_subset_predictors(tile_bo, cmv, tile_mvs, frame_ref_opt, ref_frame_id) ==
  LET p0 == push(push([v |-> <<>>, n |-> 0], MvZero), quantize_to_fullpel(cmv))
      \* EPZS subset A and B predictors.
      has_left == tile_bo.x > 0
      left == tile_index(tile_mvs, tile_bo.y, tile_bo.x - 1)
      p1 == push_nonzero(p0, has_left, left)
      has_top == tile_bo.y > 0
      top == tile_index(tile_mvs, tile_bo.y - 1, tile_bo.x)
      p2 == push_nonzero(p1, has_top, top)
      has_top_right == top_right_guard(tile_bo, tile_mvs)
      top_right == tile_index(tile_mvs, tile_bo.y - 1, tile_bo.x + 1)
      p3 == push_nonzero(p2, has_top_right, top_right)
      median_preds == (IF has_left THEN <<left>> ELSE <<>>)
                   \o (IF has_top THEN <<top>> ELSE <<>>)
                   \o (IF has_top_right THEN <<top_right>> ELSE <<>>)
      median_mv == MvDiv(MvSum(median_preds), Len(median_preds))
      median_mv_quant == quantize_to_fullpel(median_mv)
      p4 == IF median_preds # <<>> THEN push_nonzero(p3, TRUE, median_mv_quant) ELSE p3
      tile_reads_ok ==
        /\ has_left => tile_in_bounds(tile_mvs, tile_bo.y, tile_bo.x - 1)
        /\ has_top => tile_in_bounds(tile_mvs, tile_bo.y - 1, tile_bo.x)
        /\ has_top_right => tile_in_bounds(tile_mvs, tile_bo.y - 1, tile_bo.x + 1)
  IN  IF ~frame_ref_opt.some
      THEN [predictors |-> p4.v, pushes |-> p4.n, reads_ok |-> tile_reads_ok]
      ELSE
        \* EPZS subset C predictors.
        LET prev_frame_mvs == frame_ref_opt.frame_mvs[ref_frame_id + 1]
            frame_bo == [x |-> tile_mvs.x + tile_bo.x, y |-> tile_mvs.y + tile_bo.y]
            c_left == frame_bo.x > 0
            c_top == frame_bo.y > 0
            c_right == frame_bo.x < prev_frame_mvs.cols - 1
            c_bottom == frame_bo.y < prev_frame_mvs.rows - 1
            p5 == push_nonzero(p4, c_left,
                               fmv_index(prev_frame_mvs, frame_bo.y, frame_bo.x - 1))
            p6 == push_nonzero(p5, c_top,
                               fmv_index(prev_frame_mvs, frame_bo.y - 1, frame_bo.x))
            p7 == push_nonzero(p6, c_right,
                               fmv_index(prev_frame_mvs, frame_bo.y, frame_bo.x + 1))
            p8 == push_nonzero(p7, c_bottom,
                               fmv_index(prev_frame_mvs, frame_bo.y + 1, frame_bo.x))
            p9 == push_nonzero(p8, TRUE,
                               fmv_index(prev_frame_mvs, frame_bo.y, frame_bo.x))
            prev_reads_ok ==
              /\ c_left => fmv_in_bounds(prev_frame_mvs, frame_bo.y, frame_bo.x - 1)
              /\ c_top => fmv_in_bounds(prev_frame_mvs, frame_bo.y - 1, frame_bo.x)
              /\ c_right => fmv_in_bounds(prev_frame_mvs, frame_bo.y, frame_bo.x + 1)
              /\ c_bottom => fmv_in_bounds(prev_frame_mvs, frame_bo.y + 1, frame_bo.x)
              /\ fmv_in_bounds(prev_frame_mvs, frame_bo.y, frame_bo.x)
        IN  [predictors |-> p9.v, pushes |-> p9.n,
             reads_ok |-> tile_reads_ok /\ prev_reads_ok]

---------------------------------------------------------------------------
(* MV range, block offsets, and the cost of one candidate.                 *)

MI_SIZE == 4
BLOCK_TO_PLANE_SHIFT == 2

BlockOffset(x, y) == [x |-> x, y |-> y]
PlaneOffset(x, y) == [x |-> x, y |-> y]

get_mv_range_posmin(w_in_b, h_in_b, bo, blk_w, blk_h) ==
  LET border_w == 128 + blk_w * 8
      border_h == 128 + blk_h * 8
  IN  [mvx_min |-> bo.x * (8 * MI_SIZE) + border_w,
       mvx_max |-> (w_in_b - bo.x - blk_w \div MI_SIZE) * (8 * MI_SIZE) + border_w,
       mvy_min |-> bo.y * (8 * MI_SIZE) + border_h,
       mvy_max |-> (h_in_b - bo.y - blk_h \div MI_SIZE) * (8 * MI_SIZE) + border_h]

get_mv_range_blockpx(w_in_b, h_in_b, bo, blk_w, blk_h) ==
  LET border_w == 128 + blk_w * 8
      border_h == 128 + blk_h * 8
  IN  [mvx_min |-> -bo.x * (8 * MI_SIZE) - border_w,
       mvx_max |-> (w_in_b - bo.x - blk_w) * (8 * MI_SIZE) + border_w,
       mvy_min |-> -bo.y * (8 * MI_SIZE) - border_h,
       mvy_max |-> (h_in_b - bo.y - blk_h) * (8 * MI_SIZE) + border_h]

get_mv_range(w_in_b, h_in_b, bo, blk_w, blk_h) ==
  LET border_w == 128 + blk_w * 8
      border_h == 128 + blk_h * 8
  IN  [mvx_min |-> -bo.x * (8 * MI_SIZE) - border_w,
       mvx_max |-> (w_in_b - bo.x - blk_w \div MI_SIZE) * (8 * MI_SIZE) + border_w,
       mvy_min |-> -bo.y * (8 * MI_SIZE) - border_h,
       mvy_max |-> (h_in_b - bo.y - blk_h \div MI_SIZE) * (8 * MI_SIZE) + border_h]

adjust_bo_noquarter(bo, mi_width, mi_height, blk_w, blk_h) ==
  BlockOffset(Max(Min(bo.x, mi_width - blk_w), 0),
              Max(Min(bo.y, mi_height - blk_h), 0))

\* Adjust block offset such that entire block lies within boundaries
adjust_bo(bo, mi_width, mi_height, blk_w, blk_h) ==
  BlockOffset(Max(Min(bo.x, mi_width - TruncDiv(blk_w, 4)), 0),
              Max(Min(bo.y, mi_height - TruncDiv(blk_h, 4)), 0))

\* ts.to_frame_block_offset(tile_bo) and BlockOffset::to_luma_plane_offset.
to_frame_block_offset(tile, tile_bo) == BlockOffset(tile.x + tile_bo.x, tile.y + tile_bo.y)
to_luma_plane_offset(bo) == PlaneOffset(bo.x * 2 ^ BLOCK_TO_PLANE_SHIFT, bo.y * 2 ^ BLOCK_TO_PLANE_SHIFT)

\* The MV range narrowed by `>> k` (k = 1 in the half-resolution pass).
RangeShr(rng, k) ==
  [mvx_min |-> Shr(rng.mvx_min, k), mvx_max |-> Shr(rng.mvx_max, k),
   mvy_min |-> Shr(rng.mvy_min, k), mvy_max |-> Shr(rng.mvy_max, k)]

InRange(rng, mv) ==
  /\ ~(mv.col < rng.mvx_min \/ mv.col > rng.mvx_max)
  /\ ~(mv.row < rng.mvy_min \/ mv.row > rng.mvy_max)

\* get_mv_rd_cost.  c carries the arguments that stay fixed during one search:
\* hp (fi.allow_high_precision_mv), po, p_org, p_ref, p_pred (the reference
\* plane predict_inter reads), bit_depth, pmv, lambda, rng, blk_w, blk_h and
\* subpixel (tmp_plane_opt is Some).
get_mv_rd_cost_norange(c, cand_mv) ==
  LET plane_org == Region(c.p_org, c.po.x, c.po.y, c.blk_w, c.blk_h)
      plane_ref == Region(c.p_ref, c.po.x + TruncDiv(cand_mv.col, 8), c.po.y + TruncDiv(cand_mv.row, 8), c.blk_w, c.blk_h)
  IN  compute_mv_rd_cost(c.hp, c.pmv, c.lambda, c.bit_depth, c.blk_w, c.blk_h, cand_mv, plane_org, plane_ref)

get_mv_rd_cost(c, cand_mv) ==
  IF cand_mv.col < c.rng.mvx_min \/ cand_mv.col > c.rng.mvx_max THEN U64_MAX
  ELSE IF cand_mv.row < c.rng.mvy_min \/ cand_mv.row > c.rng.mvy_max THEN U64_MAX
  ELSE
    LET plane_org == Region(c.p_org, c.po.x, c.po.y, c.blk_w, c.blk_h)
    IN  IF c.subpixel
        THEN LET plane_ref == predict_inter(c.p_pred, c.po, c.blk_w, c.blk_h, cand_mv)
             IN  compute_mv_rd_cost(c.hp, c.pmv, c.lambda, c.bit_depth, c.blk_w, c.blk_h, cand_mv, plane_org, plane_ref)
        ELSE \* Full pixel motion vector
             LET plane_ref == Region(c.p_ref, c.po.x + TruncDiv(cand_mv.col, 8), c.po.y + TruncDiv(cand_mv.row, 8), c.blk_w, c.blk_h)
             IN  compute_mv_rd_cost(c.hp, c.pmv, c.lambda, c.bit_depth, c.blk_w, c.blk_h, cand_mv, plane_org, plane_ref)

---------------------------------------------------------------------------
(* Diamond search: seeding and one iteration of the loop.                  *)

\* get_best_predictor: (center_mv, center_mv_cost) after the loop over the
\* first n predictors, starting from ((0,0), u64::MAX).
RECURSIVE best_predictor_upto_last(_, _, _)
best_predictor_upto_last(c, predictors, n) ==
  IF n = 0 THEN [mv |-> MvZero, cost |-> U64_MAX]
  ELSE LET prev == best_predictor_upto_last(c, predictors, n - 1)
           init_mv == predictors[n]
           cost == get_mv_rd_cost(c, init_mv)
       IN  IF cost <= prev.cost THEN [mv |-> init_mv, cost |-> cost] ELSE prev

RECURSIVE best_predictor_upto(_, _, _)
best_predictor_upto(c, predictors, n) ==
  IF n = 0 THEN [mv |-> MvZero, cost |-> U64_MAX]
  ELSE LET prev == best_predictor_upto(c, predictors, n - 1)
           init_mv == predictors[n]
           cost == get_mv_rd_cost(c, init_mv)
       IN  IF cost < prev.cost THEN [mv |-> init_mv, cost |-> cost] ELSE prev

get_best_predictor(c, predictors) == best_predictor_upto(c, predictors, Len(predictors))

diamond_pattern == << <<1, 0>>, <<0, 1>>, <<-1, 0>>, <<0, -1>> >>

\* The inner `for p in diamond_pattern` of one loop iteration:
\* (best_diamond_mv, best_diamond_rd_cost) after the first n candidates.
RECURSIVE best_diamond_upto(_, _, _, _)
best_diamond_upto(c, center_mv, diamond_radius, n) ==
  IF n = 0 THEN [mv |-> MvZero, cost |-> U64_MAX]
  ELSE LET prev == best_diamond_upto(c, center_mv, diamond_radius, n - 1)
           p == diamond_pattern[n]
           cand_mv == MV(WrapI16(center_mv.row + diamond_radius * p[1]), WrapI16(center_mv.col + diamond_radius * p[2]))
           rd_cost == get_mv_rd_cost(c, cand_mv)
       IN  IF rd_cost < prev.cost THEN [mv |-> cand_mv, cost |-> rd_cost] ELSE prev

\* Initial radius and final radius of diamond_me_search.
diamond_radius_start(subpixel) == IF subpixel THEN 4 ELSE 16
diamond_radius_end(subpixel, allow_high_precision_mv) ==
  IF subpixel THEN (IF allow_high_precision_mv THEN 1 ELSE 2) ELSE 8

\* The branch taken at the end of one iteration: "break", "halve" or "move".
diamond_branch_strict(center_mv_cost, best_diamond_rd_cost, diamond_radius, radius_end) ==
  IF center_mv_cost < best_diamond_rd_cost
  THEN (IF diamond_radius = radius_end THEN "break" ELSE "halve")
  ELSE "move"

diamond_branch(center_mv_cost, best_diamond_rd_cost, diamond_radius, radius_end) ==
  IF center_mv_cost <= best_diamond_rd_cost
  THEN (IF diamond_radius = radius_end THEN "break" ELSE "halve")
  ELSE "move"

---------------------------------------------------------------------------
(* Full search and telescopic sub-pel search.                              *)

\* The closure of full_search at the point (y, x): (cost, mv).
full_search_point(y, x, blk_h, blk_w, p_org, p_ref, po, bit_depth, lambda, pmv, allow_high_precision_mv) ==
  LET plane_org == Region(p_org, po.x, po.y, blk_w, blk_h)
      plane_ref == Region(p_ref, x, y, blk_w, blk_h)
      sad == get_sad(plane_org, plane_ref, blk_w, blk_h, bit_depth)
      mv == MV(WrapI16(8 * WrapI16(WrapI16(y) - WrapI16(po.y))), WrapI16(8 * WrapI16(WrapI16(x) - WrapI16(po.x))))
  IN  [cost |-> full_search_cost(allow_high_precision_mv, pmv, lambda, mv, sad), mv |-> mv]

\* Number of points of (lo..=hi).step_by(step).
range_len(lo, hi, step) == IF hi < lo THEN 0 ELSE (hi - lo) \div step + 1

RECURSIVE full_search_row_last(_, _, _, _, _, _, _, _, _, _, _, _, _)
full_search_row_last(n, x_lo, step, y, blk_h, blk_w, p_org, p_ref, po, bit_depth, lambda, pmv, allow_high_precision_mv) ==
  LET here == full_search_point(y, x_lo + (n - 1) * step, blk_h, blk_w, p_org, p_ref, po, bit_depth, lambda, pmv, allow_high_precision_mv)
  IN  IF n = 1 THEN here
      ELSE LET prev == full_search_row_last(n - 1, x_lo, step, y, blk_h, blk_w, p_org, p_ref, po, bit_depth, lambda, pmv, allow_high_precision_mv)
           IN  IF here.cost <= prev.cost THEN here ELSE prev

\* min_by_key over the points of row y: the first minimum among the first n.
RECURSIVE full_search_row(_, _, _, _, _, _, _, _, _, _, _, _, _)
full_search_row(n, x_lo, step, y, blk_h, blk_w, p_org, p_ref, po, bit_depth, lambda, pmv, allow_high_precision_mv) ==
  LET here == full_search_point(y, x_lo + (n - 1) * step, blk_h, blk_w, p_org, p_ref, po, bit_depth, lambda, pmv, allow_high_precision_mv)
  IN  IF n = 1 THEN here
      ELSE LET prev == full_search_row(n - 1, x_lo, step, y, blk_h, blk_w, p_org, p_ref, po, bit_depth, lambda, pmv, allow_high_precision_mv)
           IN  IF here.cost < prev.cost THEN here ELSE prev

\* min_by_key over the first m rows of the search area (row-major order).
RECURSIVE full_search_rows(_, _, _, _, _, _, _, _, _, _, _, _, _, _)
full_search_rows(m, nx, x_lo, y_lo, step, blk_h, blk_w, p_org, p_ref, po, bit_depth, lambda, pmv, allow_high_precision_mv) ==
  LET here == full_search_row(nx, x_lo, step, y_lo + (m - 1) * step, blk_h, blk_w, p_org, p_ref, po, bit_depth, lambda, pmv, allow_high_precision_mv)
  IN  IF m = 1 THEN here
      ELSE LET prev == full_search_rows(m - 1, nx, x_lo, y_lo, step, blk_h, blk_w, p_org, p_ref, po, bit_depth, lambda, pmv, allow_high_precision_mv)
           IN  IF here.cost < prev.cost THEN here ELSE prev

\* full_search: the values written to (*best_mv, *lowest_cost); `empty` when
\* the search area has no point (min_by_key(..).unwrap() aborts).
full_search(x_lo, x_hi, y_lo, y_hi, blk_h, blk_w, p_org, p_ref, po, step, bit_depth, lambda, pmv, allow_high_precision_mv) ==
  LET nx == range_len(x_lo, x_hi, step)
      ny == range_len(y_lo, y_hi, step)
  IN  IF nx = 0 \/ ny = 0 THEN [empty |-> TRUE, mv |-> MvZero, cost |-> U64_MAX]
      ELSE LET m == full_search_rows(ny, nx, x_lo, y_lo, step, blk_h, blk_w, p_org, p_ref, po, bit_depth, lambda, pmv, allow_high_precision_mv)
           IN  [empty |-> FALSE, mv |-> m.mv, cost |-> m.cost]

\* telescopic_subpel_search: the step sizes, in the order visited.
telescopic_steps_always1(allow_high_precision_mv) == <<8, 4, 2, 1>>

telescopic_steps(allow_high_precision_mv) ==
  IF allow_high_precision_mv THEN <<8, 4, 2, 1>> ELSE <<8, 4, 2>>

\* One pass `for i in 0..3 { for j in 0..3 { .. } }` at one step size, after
\* the first n of the nine (i, j): the running (best_mv, lowest_cost).
RECURSIVE telescopic_pass(_, _, _, _, _, _)
telescopic_pass(c, step, center_mv_h, mv0, cost0, n) ==
  IF n = 0 THEN [mv |-> mv0, cost |-> cost0]
  ELSE LET prev == telescopic_pass(c, step, center_mv_h, mv0, cost0, n - 1)
           i == (n - 1) \div 3
           j == (n - 1) % 3
           cand_mv == MV(WrapI16(center_mv_h.row + step * (i - 1)), WrapI16(center_mv_h.col + step * (j - 1)))
       IN  IF i = 1 /\ j = 1 THEN prev
           ELSE IF cand_mv.col < c.rng.mvx_min \/ cand_mv.col > c.rng.mvx_max THEN prev
           ELSE IF cand_mv.row < c.rng.mvy_min \/ cand_mv.row > c.rng.mvy_max THEN prev
           ELSE LET plane_org == Region(c.p_org, c.po.x, c.po.y, c.blk_w, c.blk_h)
                    plane_ref == predict_inter(c.p_pred, c.po, c.blk_w, c.blk_h, cand_mv)
                    sad == get_sad(plane_org, plane_ref, c.blk_w, c.blk_h, c.bit_depth)
                    cost == telescopic_cost(c.hp, c.pmv, c.lambda, cand_mv, sad)
                IN  IF cost < prev.cost THEN [mv |-> cand_mv, cost |-> cost] ELSE prev

telescopic_step(c, step, mv0, cost0) == telescopic_pass(c, step, mv0, mv0, cost0, 9)

---------------------------------------------------------------------------
(* Entry points: MotionEstimation::motion_estimation, estimate_motion_ss2   *)
(* (with DiamondSearch and FullSearch as Self) and estimate_motion_ss4.    *)

\* Option<MotionVector>
NoneMv == [some |-> FALSE]
SomeMv(mv) == [some |-> TRUE, mv |-> mv]

NoSearch == [stage |-> "none"]
\* No call has returned yet.
NoRet == [pending |-> TRUE]

\* The three lambdas; me_lambda is held in sixteenths (me_lambda16 / 16).
lambda_full(f) == (f.me_lambda16 * 256) \div 32    \* (me_lambda * 256.0 * 0.5) as u32
lambda_ss2(f) == (f.me_lambda16 * 256) \div 512    \* (me_lambda * 256.0 / 4.0 * 0.125) as u32
lambda_ss4(f) == (f.me_lambda16 * 256) \div 2048   \* (me_lambda * 256.0 / 16.0 * 0.125) as u32

rec_frame_first(f, slot) == f.frames[1]

\* fi.rec_buffer.frames[slot]
rec_frame(f, slot) == f.frames[slot + 1]
\* fi.rec_buffer.frames[fi.ref_frames[0] as usize].as_ref().map(Arc::as_ref)
frame_ref_of(f) == rec_frame(f, f.ref_frames[1])
\* ts.mvs[ref].as_const()
tile_mvs_of(t, ref) == TileMotionVectors(t.mvs[ref + 1], t.x, t.y, t.mi_width, t.mi_height)

\* The locals of a diamond_me_search call, up to the loop.
diamond_ctx(stage, hp, po, p_org, p_ref, p_pred, bit_depth, pmv, lambda, rng, blk_w, blk_h, subpixel, predictors, idx) ==
  [stage |-> stage, hp |-> hp, po |-> po, p_org |-> p_org, p_ref |-> p_ref,
   p_pred |-> p_pred, bit_depth |-> bit_depth, pmv |-> pmv, lambda |-> lambda,
   rng |-> rng, blk_w |-> blk_w, blk_h |-> blk_h, subpixel |-> subpixel,
   predictors |-> predictors, idx |-> idx, steps |-> <<>>,
   diamond_radius |-> diamond_radius_start(subpixel),
   diamond_radius_end |-> diamond_radius_end(subpixel, hp)]

\* predictor.row >>= 1; predictor.col >>= 1, for every predictor.
halve_predictors(predictors) ==
  [i \in 1..Len(predictors) |-> MV(Shr(predictors[i].row, 1), Shr(predictors[i].col, 1))]

\* diamond_me_search from its start to the head of its loop; seed is the
\* result of get_best_predictor. While pc = "diamond", best_mv and
\* lowest_cost hold the locals center_mv and center_mv_cost, which the
\* function stores through its out-parameters when it returns.
enter_diamond(c, seed) ==
  /\ search' = c
  /\ best_mv' = seed.mv
  /\ lowest_cost' = seed.cost
  /\ pc' = "diamond"

\* get_subset_predictors followed by diamond_me_search; got is the result of
\* get_subset_predictors, scaled by `halve` for the half-resolution pass.
diamond_from_predictors(c, got, halve) ==
  IF got.pushes > PredictorsCap \/ ~got.reads_ok
  THEN pc' = "panic" /\ UNCHANGED <<best_mv, lowest_cost, search>>
  ELSE enter_diamond([c EXCEPT !.predictors = IF halve THEN halve_predictors(got.predictors) ELSE got.predictors],
                     get_best_predictor(c, IF halve THEN halve_predictors(got.predictors) ELSE got.predictors))

\* The stores of full_search through best_mv and lowest_cost; m is its result.
full_search_store(m, c, next_pc) ==
  IF m.empty
  THEN pc' = "panic" /\ UNCHANGED <<best_mv, lowest_cost, search>>
  ELSE /\ best_mv' = m.mv
       /\ lowest_cost' = m.cost
       /\ search' = c
       /\ pc' = next_pc

\* The context shared by full_pixel_me and sub_pixel_me of one motion_estimation.
me_ctx(bsize, tile_bo, ref_frame, pmv) ==
  LET rec == rec_frame(fi, fi.ref_frames[ref_frame + 1])
      blk_w == bsize[1]
      blk_h == bsize[2]
      frame_bo == to_frame_block_offset(ts, tile_bo)
      rng == get_mv_range(fi.w_in_b, fi.h_in_b, frame_bo, blk_w, blk_h)
  IN  diamond_ctx("full_pixel_me", fi.allow_high_precision_mv, to_luma_plane_offset(frame_bo),
                  InputPlane(ts.content, 1), RecPlane(rec.content, 1), RecPlane(rec.content, 1),
                  fi.bit_depth, pmv, lambda_full(fi), rng, blk_w, blk_h, FALSE, <<>>, 0)

\* FullSearch::full_pixel_me: the search area and the call of full_search.
full_pixel_me_FullSearch(c, cmv) ==
  LET range == 16
      x_lo == c.po.x + Min(Max(-range + TruncDiv(cmv.col, 8), TruncDiv(c.rng.mvx_min, 8)), TruncDiv(c.rng.mvx_max, 8))
      x_hi == c.po.x + Min(Max(range + TruncDiv(cmv.col, 8), TruncDiv(c.rng.mvx_min, 8)), TruncDiv(c.rng.mvx_max, 8))
      y_lo == c.po.y + Min(Max(-range + TruncDiv(cmv.row, 8), TruncDiv(c.rng.mvy_min, 8)), TruncDiv(c.rng.mvy_max, 8))
      y_hi == c.po.y + Min(Max(range + TruncDiv(cmv.row, 8), TruncDiv(c.rng.mvy_min, 8)), TruncDiv(c.rng.mvy_max, 8))
  IN  full_search(x_lo, x_hi, y_lo, y_hi, c.blk_h, c.blk_w, c.p_org, c.p_ref, c.po, 2, c.bit_depth, c.lambda, c.pmv, c.hp)

\* Self::full_pixel_me of motion_estimation, for either strategy.
full_pixel_me(me, c, tile_bo, cmv, ref_frame) ==
  IF me = "DiamondSearch"
  THEN diamond_from_predictors(c, get_subset_predictors(tile_bo, cmv, tile_mvs_of(ts, ref_frame), frame_ref_of(fi), ref_frame), FALSE)
  ELSE full_search_store(full_pixel_me_FullSearch(c, cmv), c, "sub_pixel_me")

motion_estimation(me, bsize, tile_bo, ref_frame, cmv, pmv) ==
  /\ pc = "idle"
  /\ call' = [op |-> "motion_estimation", me |-> me, bsize |-> bsize, tile_bo |-> tile_bo,
              ref_frame |-> ref_frame, cmv |-> cmv, pmv |-> pmv]
  /\ UNCHANGED <<fi, ts>>
  /\ IF ~rec_frame(fi, fi.ref_frames[ref_frame + 1]).some
     THEN /\ ret' = MvZero
          /\ pc' = "done"
          /\ UNCHANGED <<best_mv, lowest_cost, search>>
     ELSE /\ ret' = ret
          /\ full_pixel_me(me, me_ctx(bsize, tile_bo, ref_frame, pmv), tile_bo, cmv, ref_frame)

\* A call of diamond_me_search with a predictor list and an MV range of the
\* caller's (mvx_min, mvx_max, mvy_min, mvy_max are parameters), against the
\* reference in `slot`, at full-pel or sub-pel precision.
diamond_me_search_ctx(bsize, tile_bo, slot, predictors, subpixel, rng) ==
  LET frame_bo == to_frame_block_offset(ts, tile_bo)
  IN  diamond_ctx("diamond_me_search", fi.allow_high_precision_mv, to_luma_plane_offset(frame_bo),
                  InputPlane(ts.content, 1), RecPlane(rec_frame(fi, slot).content, 1), RecPlane(rec_frame(fi, slot).content, 1),
                  fi.bit_depth, <<MvZero, MvZero>>, lambda_full(fi),
                  rng, bsize[1], bsize[2], subpixel, predictors, 0)

diamond_me_search(bsize, tile_bo, slot, predictors, subpixel, rng) ==
  /\ pc = "idle"
  /\ rec_frame(fi, slot).some
  /\ call' = [op |-> "diamond_me_search", me |-> "DiamondSearch", bsize |-> bsize, tile_bo |-> tile_bo,
              ref_idx |-> slot, predictors |-> predictors, subpixel |-> subpixel, rng |-> rng]
  /\ ret' = ret
  /\ UNCHANGED <<fi, ts>>
  /\ enter_diamond(diamond_me_search_ctx(bsize, tile_bo, slot, predictors, subpixel, rng),
                   get_best_predictor(diamond_me_search_ctx(bsize, tile_bo, slot, predictors, subpixel, rng), predictors))

diamond_iteration_shrinking(best) ==
  CASE diamond_branch(lowest_cost, best.cost, search.diamond_radius, search.diamond_radius_end) = "move" ->
         /\ best_mv' = best.mv
         /\ lowest_cost' = best.cost
         /\ search' = [search EXCEPT !.diamond_radius = Max(TruncDiv(search.diamond_radius, 2), search.diamond_radius_end)]
         /\ UNCHANGED pc
    [] diamond_branch(lowest_cost, best.cost, search.diamond_radius, search.diamond_radius_end) = "halve" ->
         /\ search' = [search EXCEPT !.diamond_radius = TruncDiv(search.diamond_radius, 2)]
         /\ UNCHANGED <<best_mv, lowest_cost, pc>>
    [] diamond_branch(lowest_cost, best.cost, search.diamond_radius, search.diamond_radius_end) = "break" ->
         /\ pc' = IF ~(lowest_cost < U64_MAX) THEN "assert_failed"
                  ELSE IF search.stage = "full_pixel_me" THEN "sub_pixel_me"
                  ELSE IF search.stage = "me_ss2" THEN "me_ss2"
                  ELSE "me_return"
         /\ UNCHANGED <<best_mv, lowest_cost, search>>

\* The end of one iteration of the loop of diamond_me_search; best is
\* (best_diamond_mv, best_diamond_rd_cost). On `break`: the closing
\* assertion and the return to the caller.
diamond_iteration(best) ==
  CASE diamond_branch(lowest_cost, best.cost, search.diamond_radius, search.diamond_radius_end) = "move" ->
         /\ best_mv' = best.mv
         /\ lowest_cost' = best.cost
         /\ UNCHANGED <<search, pc>>
    [] diamond_branch(lowest_cost, best.cost, search.diamond_radius, search.diamond_radius_end) = "halve" ->
         /\ search' = [search EXCEPT !.diamond_radius = TruncDiv(search.diamond_radius, 2)]
         /\ UNCHANGED <<best_mv, lowest_cost, pc>>
    [] diamond_branch(lowest_cost, best.cost, search.diamond_radius, search.diamond_radius_end) = "break" ->
         /\ pc' = IF ~(lowest_cost < U64_MAX) THEN "assert_failed"
                  ELSE IF search.stage = "full_pixel_me" THEN "sub_pixel_me"
                  ELSE IF search.stage = "me_ss2" THEN "me_ss2"
                  ELSE "me_return"
         /\ UNCHANGED <<best_mv, lowest_cost, search>>

\* One iteration of the loop of diamond_me_search.
diamond_step ==
  /\ pc = "diamond"
  /\ diamond_iteration(best_diamond_upto(search, best_mv, search.diamond_radius, Len(diamond_pattern)))
  /\ UNCHANGED <<fi, ts, call, ret>>

\* DiamondSearch::sub_pixel_me: diamond_me_search seeded with best_mv.
sub_pixel_me_DiamondSearch(c) == enter_diamond(c, get_best_predictor(c, c.predictors))

\* Self::sub_pixel_me of motion_estimation.
sub_pixel_me ==
  /\ pc = "sub_pixel_me"
  /\ IF call.me = "DiamondSearch"
     THEN sub_pixel_me_DiamondSearch(diamond_ctx("sub_pixel_me", search.hp, search.po, search.p_org, search.p_ref,
                                     search.p_pred, search.bit_depth, search.pmv, search.lambda, search.rng,
                                     search.blk_w, search.blk_h, TRUE, <<best_mv>>, 0))
     ELSE /\ search' = [search EXCEPT !.stage = "telescopic", !.steps = telescopic_steps(fi.allow_high_precision_mv)]
          /\ pc' = "telescopic"
          /\ UNCHANGED <<best_mv, lowest_cost>>
  /\ UNCHANGED <<fi, ts, call, ret>>

\* The stores of one step size of telescopic_subpel_search; m is the
\* running (best_mv, lowest_cost) after its nine candidates.
telescopic_store(m) ==
  /\ best_mv' = m.mv
  /\ lowest_cost' = m.cost
  /\ search' = [search EXCEPT !.steps = Tail(search.steps)]
  /\ pc' = pc

\* One step size of telescopic_subpel_search (search.steps holds the step
\* sizes still to visit).
telescopic_subpel_search ==
  /\ pc = "telescopic"
  /\ IF search.steps = <<>>
     THEN pc' = "me_return" /\ UNCHANGED <<best_mv, lowest_cost, search>>
     ELSE telescopic_store(telescopic_step(search, Head(search.steps), best_mv, lowest_cost))
  /\ UNCHANGED <<fi, ts, call, ret>>

\* motion_estimation returns best_mv.
me_return ==
  /\ pc = "me_return"
  /\ ret' = best_mv
  /\ pc' = "done"
  /\ UNCHANGED <<fi, ts, call, best_mv, lowest_cost, search>>

---------------------------------------------------------------------------
(* Half-resolution and quarter-resolution passes.                          *)

\* The locals of estimate_motion_ss2 / estimate_motion_ss4 before the search.
ss_ctx(cl, shift) ==
  LET rec == rec_frame(fi, cl.ref_idx)
      blk_w == cl.bsize[1]
      blk_h == cl.bsize[2]
      tile_bo_adj == adjust_bo(cl.tile_bo, ts.mi_width, ts.mi_height, blk_w, blk_h)
      frame_bo_adj == to_frame_block_offset(ts, tile_bo_adj)
  IN  [rec |-> rec, blk_w |-> blk_w, blk_h |-> blk_h,
       tile_bo_adj |-> tile_bo_adj, frame_bo_adj |-> frame_bo_adj,
       rng |-> get_mv_range(fi.w_in_b, fi.h_in_b, frame_bo_adj, blk_w, blk_h),
       po |-> PlaneOffset(Shr(frame_bo_adj.x * 2 ^ BLOCK_TO_PLANE_SHIFT, shift),
                          Shr(frame_bo_adj.y * 2 ^ BLOCK_TO_PLANE_SHIFT, shift))]

estimate_motion_ss2(me, bsize, ref_idx, tile_bo, pmvs, ref_frame) ==
  /\ pc = "idle"
  /\ call' = [op |-> "estimate_motion_ss2", me |-> me, bsize |-> bsize, ref_idx |-> ref_idx,
              tile_bo |-> tile_bo, pmvs |-> pmvs, ref_frame |-> ref_frame]
  /\ UNCHANGED <<fi, ts>>
  /\ IF ~rec_frame(fi, ref_idx).some
     THEN /\ ret' = NoneMv
          /\ pc' = "done"
          /\ UNCHANGED <<best_mv, lowest_cost, search>>
     ELSE /\ lowest_cost' = U64_MAX
          /\ best_mv' = MvZero
          /\ search' = [stage |-> "me_ss2", idx |-> 0, entry_cost |-> U64_MAX]
          /\ pc' = "me_ss2"
          /\ ret' = ret

\* The index of the next Some entry of pmvs after position idx, 0 if none.
next_pmv(pmvs, idx) ==
  IF \E i \in (idx + 1)..Len(pmvs) : pmvs[i].some
  THEN CHOOSE i \in (idx + 1)..Len(pmvs) : pmvs[i].some /\ \A j \in (idx + 1)..(i - 1) : ~pmvs[j].some
  ELSE 0

\* DiamondSearch::me_ss2: the context of diamond_me_search for pmvs entry k;
\* entry_cost is *lowest_cost as the call receives it.
me_ss2_ctx(s, k) ==
  [entry_cost |-> lowest_cost] @@
  diamond_ctx("me_ss2", fi.allow_high_precision_mv, s.po,
              InputPlane(ts.content, 2), RecPlane(s.rec.content, 2), RecPlane(s.rec.content, 2),
              fi.bit_depth, <<MvZero, MvZero>>, lambda_ss2(fi), RangeShr(s.rng, 1),
              Shr(s.blk_w, 1), Shr(s.blk_h, 1), FALSE, <<>>, k)

\* FullSearch::me_ss2: the search area and the call of full_search for pmv.
me_ss2_FullSearch(s, pmv) ==
  LET range == 16
      x_lo == s.po.x + Shr(Min(Max(TruncDiv(pmv.col, 8) - range, TruncDiv(s.rng.mvx_min, 8)), TruncDiv(s.rng.mvx_max, 8)), 1)
      x_hi == s.po.x + Shr(Min(Max(TruncDiv(pmv.col, 8) + range, TruncDiv(s.rng.mvx_min, 8)), TruncDiv(s.rng.mvx_max, 8)), 1)
      y_lo == s.po.y + Shr(Min(Max(TruncDiv(pmv.row, 8) - range, TruncDiv(s.rng.mvy_min, 8)), TruncDiv(s.rng.mvy_max, 8)), 1)
      y_hi == s.po.y + Shr(Min(Max(TruncDiv(pmv.row, 8) + range, TruncDiv(s.rng.mvy_min, 8)), TruncDiv(s.rng.mvy_max, 8)), 1)
  IN  full_search(x_lo, x_hi, y_lo, y_hi, Shr(s.blk_h, 1), Shr(s.blk_w, 1),
                  InputPlane(ts.content, 2), RecPlane(s.rec.content, 2), s.po, 1,
                  fi.bit_depth, lambda_ss2(fi), <<MvZero, MvZero>>, fi.allow_high_precision_mv)

\* The body of `for omv in pmvs.iter()` of Self::me_ss2 for the Some entry k,
\* or (k = 0, no entry left) the return of estimate_motion_ss2.
me_ss2_entry(k, s) ==
  IF k = 0
  THEN /\ ret' = SomeMv(MV(WrapI16(best_mv.row * 2), WrapI16(best_mv.col * 2)))
       /\ pc' = "done"
       /\ UNCHANGED <<best_mv, lowest_cost, search>>
  ELSE /\ ret' = ret
       /\ IF call.me = "DiamondSearch"
          THEN diamond_from_predictors(me_ss2_ctx(s, k),
                 get_subset_predictors(s.tile_bo_adj, call.pmvs[k].mv, tile_mvs_of(ts, call.ref_frame), frame_ref_of(fi), 0), TRUE)
          ELSE full_search_store(me_ss2_FullSearch(s, call.pmvs[k].mv), [search EXCEPT !.idx = k, !.entry_cost = lowest_cost], pc)

me_ss2 ==
  /\ pc = "me_ss2"
  /\ UNCHANGED <<fi, ts, call>>
  /\ me_ss2_entry(next_pmv(call.pmvs, search.idx), ss_ctx(call, 1))

\* estimate_motion_ss4: the search area and the call of full_search.
ss4_full_search(s) ==
  LET range_x == 192 * fi.me_range_scale
      range_y == 64 * fi.me_range_scale
      x_lo == s.po.x + Shr(Max(-range_x, TruncDiv(s.rng.mvx_min, 8)), 2)
      x_hi == s.po.x + Shr(Min(range_x, TruncDiv(s.rng.mvx_max, 8)), 2)
      y_lo == s.po.y + Shr(Max(-range_y, TruncDiv(s.rng.mvy_min, 8)), 2)
      y_hi == s.po.y + Shr(Min(range_y, TruncDiv(s.rng.mvy_max, 8)), 2)
  IN  full_search(x_lo, x_hi, y_lo, y_hi, Shr(s.blk_h, 2), Shr(s.blk_w, 2),
                  InputPlane(ts.content, 4), RecPlane(s.rec.content, 4), s.po, 1,
                  fi.bit_depth, lambda_ss4(fi), <<MvZero, MvZero>>, fi.allow_high_precision_mv)

\* The stores and the return value of estimate_motion_ss4; m is the result
\* of full_search.
ss4_return(m) ==
  IF m.empty
  THEN pc' = "panic" /\ ret' = ret /\ UNCHANGED <<best_mv, lowest_cost, search>>
  ELSE /\ best_mv' = m.mv
       /\ lowest_cost' = m.cost
       /\ search' = [stage |-> "ss4"]
       /\ ret' = SomeMv(MV(WrapI16(m.mv.row * 4), WrapI16(m.mv.col * 4)))
       /\ pc' = "done"

estimate_motion_ss4(bsize, ref_idx, tile_bo) ==
  /\ pc = "idle"
  /\ call' = [op |-> "estimate_motion_ss4", me |-> "none", bsize |-> bsize, ref_idx |-> ref_idx, tile_bo |-> tile_bo]
  /\ UNCHANGED <<fi, ts>>
  /\ IF ~rec_frame(fi, ref_idx).some
     THEN /\ ret' = NoneMv
          /\ pc' = "done"
          /\ UNCHANGED <<best_mv, lowest_cost, search>>
     ELSE ss4_return(ss4_full_search(ss_ctx([bsize |-> bsize, ref_idx |-> ref_idx, tile_bo |-> tile_bo], 2)))

---------------------------------------------------------------------------
(* The inputs of the model and the specification of the entry points.      *)

\* BlockSize::width() x height(), in the order of the BlockSize enumeration.
BlockSizes == << <<4, 4>>, <<4, 8>>, <<8, 4>>, <<8, 8>>, <<8, 16>>, <<16, 8>>, <<16, 16>>, <<16, 32>>, <<32, 16>>, <<32, 32>>, <<32, 64>>, <<64, 32>>, <<64, 64>>, <<64, 128>>, <<128, 64>>, <<128, 128>>, <<4, 16>>, <<16, 4>>, <<8, 32>>, <<32, 8>>, <<16, 64>>, <<64, 16>> >>

\* A reference slot of rec_buffer.frames: Option<ReferenceFrame>.
RefSlot(some, content, w, h, seed) ==
  [some |-> some, content |-> content,
   frame_mvs |-> << FrameMotionVectors(w, h, IF seed = 0 THEN 0 ELSE seed + 2),
                    FrameMotionVectors(w, h, IF seed = 0 THEN 0 ELSE seed + 3) >>]

\* Plane content, first column of the tile and content of the MV grids.
Scenarios ==
  { [content |-> "same",   x0 |-> 0, seed |-> 0],
    [content |-> "shift",  x0 |-> 1, seed |-> 2],
    [content |-> "far",    x0 |-> 0, seed |-> 2],
    [content |-> "farneg", x0 |-> 1, seed |-> 0],
    [content |-> "flat",   x0 |-> 0, seed |-> 1] }

FrameInvariantsOf(sc, hp, present) ==
  [w_in_b |-> MaxWInB, h_in_b |-> MaxHInB, allow_high_precision_mv |-> hp,
   me_lambda16 |-> 20, me_range_scale |-> 1, bit_depth |-> 8,
   ref_frames |-> <<1, 0>>,
   frames |-> << RefSlot(present[1], sc.content, MaxWInB, MaxHInB, sc.seed),
                 RefSlot(present[2], sc.content, MaxWInB, MaxHInB, sc.seed) >>]

\* The tile: the frame from column x0 on.
TileStateOf(sc) ==
  [x |-> sc.x0, y |-> 0, mi_width |-> MaxWInB - sc.x0, mi_height |-> MaxHInB,
   content |-> sc.content,
   mvs |-> << FrameMotionVectors(MaxWInB, MaxHInB, sc.seed),
              FrameMotionVectors(MaxWInB, MaxHInB, IF sc.seed = 0 THEN 0 ELSE sc.seed + 1) >>]

Bsizes == { BlockSizes[i] : i \in 1..Min(MaxBsize, Len(BlockSizes)) }

\* Block offsets of the tile, and those at which the block lies inside it.
TileBos(t) == { BlockOffset(x, y) : x \in 0..(t.mi_width - 1), y \in 0..(t.mi_height - 1) }
FitsTile(t, bsize, bo) ==
  /\ bo.x + bsize[1] \div MI_SIZE <= t.mi_width
  /\ bo.y + bsize[2] \div MI_SIZE <= t.mi_height

RefTypes == {0, 1}
\* (cmv, pmv) of a motion_estimation call.
MvArgs == { <<MvZero, <<MvZero, MvZero>> >>,
            <<MV(-19, 45), <<MV(8, -8), MV(-3, 2)>> >>,
            <<MV(0, 600), <<MvZero, MV(16, 0)>> >> }
PmvsSs2 == { <<NoneMv, NoneMv, NoneMv>>,
             <<SomeMv(MvZero), NoneMv, SomeMv(MV(-40, 24))>>,
             <<SomeMv(MV(2, 600)), SomeMv(MV(-16, 0)), SomeMv(MV(8, 8))>> }
Strategies == {"DiamondSearch", "FullSearch"}

Init ==
  /\ \E sc \in Scenarios, hp \in BOOLEAN, present \in { <<TRUE, FALSE>>, <<FALSE, TRUE>> } :
        /\ fi = FrameInvariantsOf(sc, hp, present)
        /\ ts = TileStateOf(sc)
  /\ pc = "idle"
  /\ call = [op |-> "none"]
  /\ ret = NoRet
  /\ best_mv = MvZero
  /\ lowest_cost = U64_MAX
  /\ search = NoSearch

\* First and last block offset of the tile.
CornerBos(t) == { BlockOffset(0, 0), BlockOffset(t.mi_width - 1, t.mi_height - 1) }

\* The exhaustive strategy is run for the smallest block size, at the first
\* and at the last block offset of the tile.
FullSearchArgs(me, t, bsize, tile_bo) ==
  me = "FullSearch" => bsize = BlockSizes[1] /\ tile_bo \in CornerBos(t)

CallMotionEstimation ==
  \E me \in Strategies, bsize \in Bsizes, tile_bo \in TileBos(ts), ref_frame \in RefTypes, a \in MvArgs :
     /\ FitsTile(ts, bsize, tile_bo)
     /\ FullSearchArgs(me, ts, bsize, tile_bo)
     /\ motion_estimation(me, bsize, tile_bo, ref_frame, a[1], a[2])

CallEstimateMotionSs2 ==
  \E me \in Strategies, bsize \in Bsizes, tile_bo \in TileBos(ts), ref_idx \in {0, 1}, pmvs \in PmvsSs2 :
     /\ FitsTile(ts, bsize, BlockOffset(0, 0))
     /\ FullSearchArgs(me, ts, bsize, tile_bo)
     /\ estimate_motion_ss2(me, bsize, ref_idx, tile_bo, pmvs, 0)

CallEstimateMotionSs4 ==
  \E bsize \in Bsizes, tile_bo \in TileBos(ts), ref_idx \in {0, 1} :
     /\ FitsTile(ts, bsize, BlockOffset(0, 0))
     /\ estimate_motion_ss4(bsize, ref_idx, tile_bo)

\* Predictor lists handed to diamond_me_search directly: empty, out of
\* range only, out of range first.
DirectPredictors == { <<>>, << MV(0, 600) >>, << MV(-2000, 8), MV(16, -16) >> }

\* MV ranges handed to diamond_me_search directly: the one get_mv_range
\* computes for the block, and the rectangle that holds the zero MV only.
PointRange == [mvx_min |-> 0, mvx_max |-> 0, mvy_min |-> 0, mvy_max |-> 0]
DirectRanges(bsize, tile_bo) ==
  { get_mv_range(fi.w_in_b, fi.h_in_b, to_frame_block_offset(ts, tile_bo), bsize[1], bsize[2]), PointRange }

CallDiamondMeSearch ==
  \E tile_bo \in CornerBos(ts), slot \in {0, 1}, predictors \in DirectPredictors, subpixel \in BOOLEAN :
    \E rng \in DirectRanges(BlockSizes[1], tile_bo) :
      diamond_me_search(BlockSizes[1], tile_bo, slot, predictors, subpixel, rng)

Next ==
  \/ CallMotionEstimation
  \/ CallDiamondMeSearch
  \/ CallEstimateMotionSs2
  \/ CallEstimateMotionSs4
  \/ diamond_step
  \/ sub_pixel_me
  \/ telescopic_subpel_search
  \/ me_return
  \/ me_ss2

Spec == Init /\ [][Next]_vars

\* The candidates of the current loop iteration of diamond_me_search.
DiamondCandidates ==
  { MV(best_mv.row + search.diamond_radius * p[1], best_mv.col + search.diamond_radius * p[2]) :
      p \in { <<1, 0>>, <<0, 1>>, <<-1, 0>>, <<0, -1>> } }

\* What any iteration of the loop of diamond_me_search does to the state,
\* whichever branch it takes: it moves the center to a candidate, halves the
\* radius or leaves the loop. Every diamond_step is such a step, and one is
\* possible exactly while the loop runs.
diamond_loop ==
  /\ pc = "diamond"
  /\ pc' \in {"me_return", "sub_pixel_me", "me_ss2", "assert_failed", "diamond"}
  /\ best_mv' \in DiamondCandidates \cup {best_mv}
  /\ lowest_cost' \in 0..lowest_cost
  /\ search' \in {search, [search EXCEPT !.diamond_radius = TruncDiv(search.diamond_radius, 2)]}
  /\ UNCHANGED <<fi, ts, call, ret>>

\* A call that has entered the loop of diamond_me_search keeps executing it:
\* the loop has no blocking operation.
FairSpec == Spec /\ WF_vars(diamond_loop)

---------------------------------------------------------------------------
(* Properties of the searches.                                             *)

\* The reference slot the current call asks for, and whether it is filled.
CallSlot == IF call.op = "motion_estimation" THEN fi.ref_frames[call.ref_frame + 1] ELSE call.ref_idx
SlotFilled == fi.frames[CallSlot + 1].some

\* The frame block offset the current call searches at: the tile's origin
\* plus the block offset, which the subsampled passes first pull inside
\* the tile.
CallFrameBo ==
  IF call.op \in {"estimate_motion_ss2", "estimate_motion_ss4"}
  THEN [x |-> ts.x + Max(0, Min(call.tile_bo.x, ts.mi_width - call.bsize[1] \div 4)),
        y |-> ts.y + Max(0, Min(call.tile_bo.y, ts.mi_height - call.bsize[2] \div 4))]
  ELSE [x |-> ts.x + call.tile_bo.x, y |-> ts.y + call.tile_bo.y]

\* The rectangle of allowed MVs of the current call, in eighth-pel units.
CallMvxMin == -(32 * CallFrameBo.x + 128 + 8 * call.bsize[1])
CallMvxMax == 32 * (fi.w_in_b - CallFrameBo.x - call.bsize[1] \div 4) + 128 + 8 * call.bsize[1]
CallMvyMin == -(32 * CallFrameBo.y + 128 + 8 * call.bsize[2])
CallMvyMax == 32 * (fi.h_in_b - CallFrameBo.y - call.bsize[2] \div 4) + 128 + 8 * call.bsize[2]
InCallRange(mv) ==
  /\ CallMvxMin <= mv.col /\ mv.col <= CallMvxMax
  /\ CallMvyMin <= mv.row /\ mv.row <= CallMvyMax

\* C1: the MV held or returned by each search (diamond_me_search at
\* full-pel and sub-pel precision, FullSearch::full_pixel_me,
\* telescopic_subpel_search, estimate_motion_ss2 and estimate_motion_ss4
\* after rescaling by 2 and 4) lies inside the rectangle of get_mv_range,
\* and a candidate outside it costs u64::MAX.
C1_ReturnedMvInRange ==
  /\ (pc \in {"diamond", "sub_pixel_me", "telescopic", "me_return"} /\ call.op # "estimate_motion_ss2")
        => InCallRange(best_mv)
  /\ (pc \in {"diamond", "me_ss2"} /\ call.op = "estimate_motion_ss2")
        => InCallRange(MV(2 * best_mv.row, 2 * best_mv.col))
  /\ (pc = "done" /\ SlotFilled /\ call.op \in {"motion_estimation", "diamond_me_search"})
        => InCallRange(ret)
  /\ (pc = "done" /\ SlotFilled /\ call.op \in {"estimate_motion_ss2", "estimate_motion_ss4"})
        => ret.some /\ InCallRange(ret.mv)
  /\ pc = "diamond"
        => \A cand \in DiamondCandidates :
              ~InRange(search.rng, cand) => get_mv_rd_cost(search, cand) = U64_MAX

\* motion_estimation with DiamondSearch has returned a non-zero MV within
\* 16 eighth-pels (one full-pel radius) of the right edge of the rectangle,
\* so that the search had candidates beyond that edge.
C1_Witness ==
  /\ pc = "done" /\ call.op = "motion_estimation" /\ call.me = "DiamondSearch" /\ SlotFilled
  /\ ret.col >= CallMvxMax - 16
  /\ ret # MvZero

\* The MV range of the current call is the one get_mv_range computes.
RangeOfGetMvRange ==
  call.op = "diamond_me_search"
    => call.rng = [mvx_min |-> CallMvxMin, mvx_max |-> CallMvxMax, mvy_min |-> CallMvyMin, mvy_max |-> CallMvyMax]

\* diamond_me_search has returned to its caller.
DiamondReturned ==
  /\ \/ pc \in {"sub_pixel_me", "me_return"}
     \/ pc = "me_ss2" /\ search.idx > 0
  /\ call.me = "DiamondSearch"

RadiusOk ==
  /\ search.diamond_radius \in (IF ~search.subpixel THEN {16, 8} ELSE IF search.hp THEN {4, 2, 1} ELSE {4, 2})
  /\ search.diamond_radius_end = (IF ~search.subpixel THEN 8 ELSE IF search.hp THEN 1 ELSE 2)

\* One loop iteration: a move of the center to a strictly cheaper candidate,
\* or a halving of the radius above radius_end, or the exit at radius_end.
DiamondProgress ==
  \/ /\ pc' = "diamond"
     /\ search' = search
     /\ best_mv' \in DiamondCandidates
     /\ lowest_cost' < lowest_cost
  \/ /\ pc' = "diamond"
     /\ search.diamond_radius # search.diamond_radius_end
     /\ search' = [search EXCEPT !.diamond_radius = search.diamond_radius \div 2]
     /\ best_mv' = best_mv /\ lowest_cost' = lowest_cost
  \/ /\ pc' # "diamond"
     /\ search.diamond_radius = search.diamond_radius_end
     /\ best_mv' = best_mv /\ lowest_cost' = lowest_cost

\* C3: diamond_me_search terminates: every loop iteration moves the center
\* to a strictly cheaper candidate, halves the radius, or stops at
\* radius_end (radii 16 -> 8, 4 -> 2, 4 -> 2 -> 1), and every search that
\* has started leaves the loop.
C3_DiamondTerminates ==
  /\ [](pc = "diamond" => RadiusOk)
  /\ [][pc = "diamond" => DiamondProgress]_vars
  /\ (pc = "diamond" ~> pc # "diamond")

\* A sub-pel search with high-precision MVs has gone through the radii
\* 4, 2, 1 and has left the loop, for a call whose coarse MV is out of range.
C3_Witness ==
  /\ pc = "me_return" /\ call.op = "motion_estimation" /\ call.me = "DiamondSearch"
  /\ search.subpixel /\ search.hp /\ search.diamond_radius = 1
  /\ ~InCallRange(call.cmv)

\* C4: with the requested reference slot empty, motion_estimation returns
\* (0,0) and estimate_motion_ss2 / estimate_motion_ss4 return None, no
\* search runs, and the planes and MV grids stay as they are; with the slot
\* filled, estimate_motion_ss2 and estimate_motion_ss4 return Some.
C4_MissingReference ==
  /\ [](/\ (pc = "done" /\ ~SlotFilled)
            => /\ ret = (IF call.op = "motion_estimation" THEN MvZero ELSE NoneMv)
               /\ best_mv = MvZero /\ lowest_cost = U64_MAX /\ search = NoSearch
        /\ (pc = "done" /\ SlotFilled /\ call.op \in {"estimate_motion_ss2", "estimate_motion_ss4"})
            => ret.some
        /\ pc \notin {"idle", "done"} => SlotFilled)
  /\ [][fi' = fi /\ ts' = ts]_vars

\* estimate_motion_ss2 has returned None for the empty slot 1 while slot 0
\* is filled.
C4_Witness ==
  /\ pc = "done" /\ call.op = "estimate_motion_ss2" /\ call.ref_idx = 1
  /\ ~SlotFilled /\ fi.frames[1].some
  /\ ret = NoneMv

---------------------------------------------------------------------------
(* Calls of the pure functions.  Each specification below draws the        *)
(* arguments of one function in Init (held in `call`) and applies the      *)
(* function in one step (result in `ret`).                                 *)

\* The variables of the search, unused by the pure-function specifications.
Unused == /\ fi = "none" /\ ts = "none" /\ best_mv = MvZero
          /\ lowest_cost = U64_MAX /\ search = NoSearch

\* Components of the MVs handed to get_mv_rate.
RateComps == {0, 1, -1, 2, -2, 3, -3, 16, -17, 255, -256, 16383, -16384, 32767, -32768}
RateRows == { <<0, 0>>, <<4, -3>>, <<-6, 2>>, <<-32768, 1>> }

RateInit ==
  /\ Unused
  /\ pc = "rate_idle"
  /\ ret = NoRet
  /\ \E ac \in RateComps, bc \in RateComps, rows \in RateRows, hp \in BOOLEAN, checks \in BOOLEAN :
        call = [op |-> "get_mv_rate", a |-> MV(rows[1], ac), b |-> MV(rows[2], bc),
                allow_high_precision_mv |-> hp, overflow_checks |-> checks]

\* get_mv_rate(a, b, hp) and get_mv_rate(b, a, hp).
RateApply ==
  /\ pc = "rate_idle"
  /\ ret' = [ab |-> get_mv_rate_outcome(call.a, call.b, call.allow_high_precision_mv, call.overflow_checks),
             ba |-> get_mv_rate_outcome(call.b, call.a, call.allow_high_precision_mv, call.overflow_checks)]
  /\ pc' = "rate_done"
  /\ UNCHANGED <<fi, ts, call, best_mv, lowest_cost, search>>

SpecRate == RateInit /\ [][RateApply]_vars

\* The rate as the specification states it, over the integers.
CeilLog2(n) == CHOOSE k \in 0..17 : 2 ^ k >= n /\ (k = 0 \/ 2 ^ (k - 1) < n)
LeadingZerosU16(n) == Cardinality({ i \in 0..15 : 2 ^ i > n })
StatedR(d, hp) ==
  LET dd == IF hp THEN d ELSE (IF d >= 0 THEN d \div 2 ELSE -((1 - d) \div 2))
  IN  IF dd = 0 THEN 0 ELSE 2 * CeilLog2(Abs(dd) + 1)
StatedRate(a, b, hp) == StatedR(a.row - b.row, hp) + StatedR(a.col - b.col, hp)
StatedRLz(d, hp) ==
  LET dd == IF hp THEN d ELSE (IF d >= 0 THEN d \div 2 ELSE -((1 - d) \div 2))
  IN  IF dd = 0 THEN 0 ELSE 2 * (16 - LeadingZerosU16(Abs(dd)))

\* Both component differences of the call fit in -32767..32767.
DiffsFit ==
  /\ Abs(call.a.row - call.b.row) <= 32767
  /\ Abs(call.a.col - call.b.col) <= 32767

\* C6 as stated: for every pair of MVs with 16-bit components and both
\* values of hp, get_mv_rate(a, b, hp) returns r(row_diff) + r(col_diff) with
\* r(d') = 0 if d' = 0, else 2 * ceil(log2(|d'| + 1)).
C6_RateFormulaEveryPair ==
  pc = "rate_done" =>
    /\ ~ret.ab.panic
    /\ ret.ab.rate = StatedRate(call.a, call.b, call.allow_high_precision_mv)

\* C6 amended: for every pair of MVs whose component differences lie in
\* -32767..32767, with or without overflow checks, get_mv_rate(a, b, hp)
\* returns r(row_diff) + r(col_diff), where r(d') = 0 if d' = 0 and else
\* 2 * (16 - leading_zeros_u16(|d'|)) = 2 * ceil(log2(|d'| + 1)), d' = d
\* if hp else d >> 1 (floor); in particular get_mv_rate(a, a, hp) = 0.
C6_RateFormula ==
  (pc = "rate_done" /\ DiffsFit) =>
    /\ ~ret.ab.panic
    /\ ret.ab.rate = StatedRate(call.a, call.b, call.allow_high_precision_mv)
    /\ ret.ab.rate = StatedRLz(call.a.row - call.b.row, call.allow_high_precision_mv)
                   + StatedRLz(call.a.col - call.b.col, call.allow_high_precision_mv)
    /\ call.a = call.b => ret.ab.rate = 0

\* A call without high-precision MVs on a negative odd column difference
\* and a non-zero row difference has been answered.
C6_Witness ==
  /\ pc = "rate_done" /\ DiffsFit /\ ~call.allow_high_precision_mv
  /\ call.a.col - call.b.col = -257 /\ call.a.row - call.b.row = 7
  /\ ret.ab.rate = 2 * 8 + 2 * 2

\* C7 as stated: get_mv_rate(a, b, hp) = get_mv_rate(b, a, hp) for every pair
\* of MVs and both values of hp.
C7_RateSymmetricEveryPair ==
  pc = "rate_done" => ret.ab = ret.ba

\* Both component differences of the call are even.
DiffsEven ==
  /\ (call.a.row - call.b.row) % 2 = 0
  /\ (call.a.col - call.b.col) % 2 = 0

\* C7 amended: for every pair of MVs whose component differences lie in
\* -32767..32767, get_mv_rate(a, b, hp) = get_mv_rate(b, a, hp) when hp is
\* true, and when hp is false and both component differences are even.
C7_RateSymmetric ==
  (pc = "rate_done" /\ DiffsFit /\ (call.allow_high_precision_mv \/ DiffsEven)) =>
    /\ ~ret.ab.panic /\ ~ret.ba.panic
    /\ ret.ab.rate = ret.ba.rate

\* Without high-precision MVs, a pair with even non-zero differences has
\* been rated in both orders.
C7_Witness ==
  /\ pc = "rate_done" /\ DiffsFit /\ DiffsEven /\ ~call.allow_high_precision_mv
  /\ call.a.col - call.b.col = -258 /\ call.a.row - call.b.row = -8
  /\ ret.ab.rate = ret.ba.rate /\ ret.ab.rate > 0

---------------------------------------------------------------------------
(* The RD cost at its three sites.                                         *)

\* Sample blocks of the cost calls: 2 x 2 regions.
CostRegions == { << <<0, 0>>, <<0, 0>> >>, << <<10, 200>>, <<255, 0>> >>, << <<7, 7>>, <<9, 1>> >> }
CostMvs == { MvZero, MV(8, -8), MV(-3, 2), MV(16, 0), MV(-40, 24), MV(5, 129) }
CostPmvs == { <<MvZero, MvZero>>, <<MV(8, -8), MV(-3, 2)>>, <<MV(-64, 64), MV(16, 1)>>, <<MV(300, -7), MV(-40, 24)>> }
CostLambdas == {0, 1, 20, 160}

CostInit ==
  /\ Unused
  /\ pc = "cost_idle"
  /\ ret = NoRet
  /\ \E mv \in CostMvs, pmv \in CostPmvs, lambda \in CostLambdas, hp \in BOOLEAN, org \in CostRegions, ref \in CostRegions :
        call = [op |-> "rd_cost", cand_mv |-> mv, pmv |-> pmv, lambda |-> lambda,
                allow_high_precision_mv |-> hp, plane_org |-> org, plane_ref |-> ref]

\* The cost of one candidate as compute_mv_rd_cost, telescopic_subpel_search
\* and full_search compute it.
CostApply ==
  /\ pc = "cost_idle"
  /\ ret' = [sad |-> get_sad(call.plane_org, call.plane_ref, 2, 2, 8),
             diamond |-> compute_mv_rd_cost(call.allow_high_precision_mv, call.pmv, call.lambda, 8, 2, 2,
                                            call.cand_mv, call.plane_org, call.plane_ref),
             telescopic |-> telescopic_cost(call.allow_high_precision_mv, call.pmv, call.lambda, call.cand_mv,
                                            get_sad(call.plane_org, call.plane_ref, 2, 2, 8)),
             full |-> full_search_cost(call.allow_high_precision_mv, call.pmv, call.lambda, call.cand_mv,
                                       get_sad(call.plane_org, call.plane_ref, 2, 2, 8))]
  /\ pc' = "cost_done"
  /\ UNCHANGED <<fi, ts, call, best_mv, lowest_cost, search>>

SpecCost == CostInit /\ [][CostApply]_vars

\* The least element of a non-empty set of numbers.
Least(S) == CHOOSE x \in S : \A y \in S : x <= y

\* The two rates of the call's candidate.
CostRate1 == get_mv_rate(call.cand_mv, call.pmv[1], call.allow_high_precision_mv)
CostRate2 == get_mv_rate(call.cand_mv, call.pmv[2], call.allow_high_precision_mv)

\* C5: the RD cost of a candidate equals
\* 256 * sad + lambda * min(mv_rate(mv, pmv[0]), mv_rate(mv, pmv[1]) + 1),
\* the +1 on the pmv[1] rate only, and compute_mv_rd_cost,
\* telescopic_subpel_search and full_search compute this same value.
C5_RdCost ==
  pc = "cost_done" =>
    /\ ret.diamond = 256 * ret.sad + call.lambda * Least({CostRate1, CostRate2 + 1})
    /\ ret.telescopic = ret.diamond
    /\ ret.full = ret.diamond

\* A cost has been computed in which the pmv[1] rate plus one is the
\* smaller of the two terms.
C5_Witness ==
  /\ pc = "cost_done" /\ call.lambda = 20 /\ ret.sad > 0
  /\ CostRate2 + 1 < CostRate1
  /\ ret.full = 256 * ret.sad + 20 * (CostRate2 + 1)

---------------------------------------------------------------------------
(* The scalar SAD kernel on stored samples.                                *)

MaxSadW == 3      \* widest block of the SAD calls
MaxSadH == 3      \* tallest block of the SAD calls

\* Sample (r, c) of a block: `base` at the top left, changing by `slope` per
\* sample in raster order, kept below 2^bit_depth.
SadSample(base, slope, w, r, c, bit_depth) == (base + slope * ((r - 1) * w + (c - 1))) % (2 ^ bit_depth)

\* The samples of the planes built by test::setup_sad, in the region
\* starting at (32, 40) that get_sad_same_inner compares.
setup_sad_input(r, c) == (c + r + 96) % 256
setup_sad_rec(r, c) == (c - r) % 256

\* The block sizes and expected values of get_sad_same_inner checked here.
SadTable == { <<4, 4, 1912>>, <<4, 8, 4296>>, <<8, 4, 3496>>, <<8, 8, 7824>>, <<16, 16, 31136>> }

\* The region of a Plane<T> holding `samples`, T of `bytes` bytes.
StoredRegion(samples, bytes) ==
  [r \in 1..Len(samples) |-> [c \in 1..Len(samples[r]) |-> cast_from(samples[r][c], bytes)]]

SadInit ==
  /\ Unused
  /\ pc = "sad_idle"
  /\ ret = NoRet
  /\ \/ \E bit_depth \in {8, 10, 12}, w \in 1..MaxSadW, h \in 1..MaxSadH, a0 \in {0, 255, 4095}, b0 \in {0, 37, 1023, 4095}, ka \in {0, 1}, kb \in {0, 5, 130} :
          /\ a0 < 2 ^ bit_depth /\ b0 < 2 ^ bit_depth
          /\ call = [op |-> "get_sad", bit_depth |-> bit_depth, blk_w |-> w, blk_h |-> h, expected |-> -1,
                     org |-> [r \in 1..h |-> [c \in 1..w |-> SadSample(a0, ka, w, r, c, bit_depth)]],
                     ref |-> [r \in 1..h |-> [c \in 1..w |-> SadSample(b0, kb, w, r, c, bit_depth)]]]
     \/ \E t \in SadTable :
          call = [op |-> "get_sad", bit_depth |-> 8, blk_w |-> t[1], blk_h |-> t[2], expected |-> t[3],
                  org |-> [r \in 1..t[2] |-> [c \in 1..t[1] |-> setup_sad_input(r - 1, c - 1)]],
                  ref |-> [r \in 1..t[2] |-> [c \in 1..t[1] |-> setup_sad_rec(r - 1, c - 1)]]]

\* get_sad::<u16> on the samples and, for 8-bit content, get_sad::<u8>.
SadApply ==
  /\ pc = "sad_idle"
  /\ ret' = [u16 |-> get_sad(StoredRegion(call.org, 2), StoredRegion(call.ref, 2), call.blk_w, call.blk_h, call.bit_depth),
             u8 |-> IF call.bit_depth = 8
                    THEN get_sad(StoredRegion(call.org, 1), StoredRegion(call.ref, 1), call.blk_w, call.blk_h, call.bit_depth)
                    ELSE -1]
  /\ pc' = "sad_done"
  /\ UNCHANGED <<fi, ts, call, best_mv, lowest_cost, search>>

SpecSad == SadInit /\ [][SadApply]_vars

\* The sum of |A[r,c] - B[r,c]| over the columns C of row r, and over the
\* rows R.
RECURSIVE SumCols(_, _, _, _)
SumCols(org, ref, r, C) ==
  IF C = {} THEN 0
  ELSE LET c == CHOOSE q \in C : TRUE
       IN  Abs(org[r][c] - ref[r][c]) + SumCols(org, ref, r, C \ {c})

RECURSIVE SumRows(_, _, _, _)
SumRows(org, ref, R, C) ==
  IF R = {} THEN 0
  ELSE LET r == CHOOSE q \in R : TRUE
       IN  SumCols(org, ref, r, C) + SumRows(org, ref, R \ {r}, C)

\* C8: on samples below 2^bit_depth the scalar get_sad returns the sum over
\* r < h, c < w of |A[r,c] - B[r,c]|, the same for 8-bit and for 16-bit
\* storage, within 0 .. (2^bit_depth - 1) * w * h; the values of the
\* regression table of get_sad_same_inner are reproduced.
C8_SadIsSumOfAbsDiff ==
  pc = "sad_done" =>
    /\ ret.u16 = SumRows(call.org, call.ref, 1..call.blk_h, 1..call.blk_w)
    /\ call.bit_depth = 8 => ret.u8 = ret.u16
    /\ ret.u16 >= 0
    /\ ret.u16 <= (2 ^ call.bit_depth - 1) * call.blk_w * call.blk_h
    /\ call.expected >= 0 => ret.u16 = call.expected

\* The largest SAD of a block has been returned: every sample pair differs
\* by 2^bit_depth - 1, in both storage widths.
C8_Witness ==
  /\ pc = "sad_done" /\ call.bit_depth = 8 /\ call.blk_w = MaxSadW /\ call.blk_h = MaxSadH
  /\ ret.u8 = 255 * MaxSadW * MaxSadH
  /\ ret.u16 = ret.u8

---------------------------------------------------------------------------
(* The predictor collector on its own.                                     *)

MaxSeed == 6      \* contents of the MV grids: seeds 0..MaxSeed

\* The grids of the predictor calls: MaxWInB columns, MaxHInB + 1 rows.
PredCols == MaxWInB
PredRows == MaxHInB + 1
PredCmvs == { MvZero, MV(-19, 45), MV(5, -7) }

PredInit ==
  /\ Unused
  /\ pc = "pred_idle"
  /\ ret = NoRet
  /\ \E x0 \in {0, 1}, y0 \in {0, 1}, cur \in 0..MaxSeed, prev \in 0..MaxSeed, some \in BOOLEAN, cmv \in PredCmvs, id \in {0, 1} :
       \E bx \in 0..(PredCols - x0 - 1), by \in 0..(PredRows - y0 - 1) :
          /\ some \/ prev = 0
          /\ call = [op |-> "get_subset_predictors", tile_bo |-> BlockOffset(bx, by), cmv |-> cmv,
                     tile_mvs |-> TileMotionVectors(FrameMotionVectors(PredCols, PredRows, cur), x0, y0, PredCols - x0, PredRows - y0),
                     frame_ref_opt |-> [some |-> some,
                                        frame_mvs |-> << FrameMotionVectors(PredCols, PredRows, prev),
                                                         FrameMotionVectors(PredCols, PredRows, (prev + 1) % (MaxSeed + 1)) >>],
                     ref_frame_id |-> id]

PredApply ==
  /\ pc = "pred_idle"
  /\ ret' = get_subset_predictors(call.tile_bo, call.cmv, call.tile_mvs, call.frame_ref_opt, call.ref_frame_id)
  /\ pc' = "pred_done"
  /\ UNCHANGED <<fi, ts, call, best_mv, lowest_cost, search>>

SpecPred == PredInit /\ [][PredApply]_vars

\* The MV stored at frame position (x, y) of the call's current-frame grid
\* and of its previous-frame grid.
CurMv(x, y) == GridMv(call.tile_mvs.fmv.seed, x, y)
PrevMv(x, y) == GridMv(call.frame_ref_opt.frame_mvs[call.ref_frame_id + 1].seed, x, y)

\* The entries of a sequence of MVs that are not (0,0), in order.
NonZero(seq) == SelectSeq(seq, LAMBDA m : m # MvZero)

\* The in-bounds neighbours of the call's block in the current frame, in the
\* order left, top, top-right (tile-relative bounds, frame positions).
StatedNeighbours ==
  LET bx == call.tile_bo.x
      by == call.tile_bo.y
      fx == call.tile_mvs.x + bx
      fy == call.tile_mvs.y + by
  IN  (IF bx >= 1 THEN << CurMv(fx - 1, fy) >> ELSE <<>>)
   \o (IF by >= 1 THEN << CurMv(fx, fy - 1) >> ELSE <<>>)
   \o (IF by >= 1 /\ bx + 1 <= call.tile_mvs.cols - 1 THEN << CurMv(fx + 1, fy - 1) >> ELSE <<>>)

\* Their component-wise mean (sum divided by count, toward zero), quantized.
StatedMean ==
  LET n == Len(StatedNeighbours)
      sr == IF n = 0 THEN 0 ELSE StatedNeighbours[1].row + (IF n > 1 THEN StatedNeighbours[2].row ELSE 0) + (IF n > 2 THEN StatedNeighbours[3].row ELSE 0)
      sc == IF n = 0 THEN 0 ELSE StatedNeighbours[1].col + (IF n > 1 THEN StatedNeighbours[2].col ELSE 0) + (IF n > 2 THEN StatedNeighbours[3].col ELSE 0)
  IN  IF n = 0 THEN <<>>
      ELSE << MV(8 * TruncDiv(TruncDiv(sr, n), 8), 8 * TruncDiv(TruncDiv(sc, n), 8)) >>

\* The previous frame's MVs around the frame position of the block, in the
\* order left, top, right, bottom, co-located.
StatedPrevious ==
  LET fx == call.tile_mvs.x + call.tile_bo.x
      fy == call.tile_mvs.y + call.tile_bo.y
  IN  IF ~call.frame_ref_opt.some THEN <<>>
      ELSE (IF fx >= 1 THEN << PrevMv(fx - 1, fy) >> ELSE <<>>)
        \o (IF fy >= 1 THEN << PrevMv(fx, fy - 1) >> ELSE <<>>)
        \o (IF fx + 1 <= PredCols - 1 THEN << PrevMv(fx + 1, fy) >> ELSE <<>>)
        \o (IF fy + 1 <= PredRows - 1 THEN << PrevMv(fx, fy + 1) >> ELSE <<>>)
        \o << PrevMv(fx, fy) >>

\* C9: get_subset_predictors returns (0,0), then cmv quantized to full-pel,
\* then the non-zero ones among the current-frame left, top and top-right
\* neighbours, then the quantized mean of the in-bounds neighbours if
\* non-zero, then (with a previous frame) the non-zero ones among its left,
\* top, right, bottom and co-located MVs; entries after the first two are
\* non-zero.
C9_PredictorList ==
  pc = "pred_done" =>
    /\ ret.predictors = << MvZero, MV(8 * TruncDiv(call.cmv.row, 8), 8 * TruncDiv(call.cmv.col, 8)) >>
                        \o NonZero(StatedNeighbours) \o NonZero(StatedMean) \o NonZero(StatedPrevious)
    /\ \A i \in 3..Len(ret.predictors) : ret.predictors[i] # MvZero

\* A list has been returned that holds a neighbour, the mean and a
\* previous-frame MV, while a zero neighbour and a zero previous-frame MV
\* were left out.
C9_Witness ==
  /\ pc = "pred_done" /\ call.frame_ref_opt.some
  /\ Len(StatedNeighbours) = 3 /\ Len(NonZero(StatedNeighbours)) = 2
  /\ NonZero(StatedMean) # <<>>
  /\ Len(NonZero(StatedPrevious)) \in 1..(Len(StatedPrevious) - 1)
  /\ Len(ret.predictors) = 2 + 2 + 1 + Len(NonZero(StatedPrevious))

\* C10: get_subset_predictors pushes at most 11 candidates, so no push on
\* the capacity-11 list fails, and every grid read is in bounds.
C10_PredictorsBounded ==
  pc = "pred_done" =>
    /\ ret.pushes <= 11
    /\ Len(ret.predictors) = ret.pushes
    /\ ret.reads_ok

\* All eleven candidates have been pushed.
C10_Witness ==
  /\ pc = "pred_done"
  /\ ret.pushes = 11 /\ Len(ret.predictors) = 11 /\ ret.reads_ok

---------------------------------------------------------------------------
(* Scenario S1: the reference plane equals the input plane.                *)

\* The diamond search that has just returned compared a plane with itself,
\* and (0,0) was among its predictors.
IdenticalPlanes ==
  /\ DiamondReturned
  /\ search.p_org = search.p_ref
  /\ \E i \in 1..Len(search.predictors) : search.predictors[i] = MvZero

\* lambda * min(mv_rate((0,0), pmv[0]), mv_rate((0,0), pmv[1]) + 1).
ZeroMvRateTerm ==
  search.lambda * Least({ StatedRate(MvZero, search.pmv[1], search.hp),
                          StatedRate(MvZero, search.pmv[2], search.hp) + 1 })

\* C11 as stated: with the reference plane equal to the input plane and
\* (0,0) among the predictors, diamond search returns (0,0) with the rate
\* term of (0,0) as its cost, for any pmv.
C11_IdenticalPlanesAnyPmv ==
  IdenticalPlanes => best_mv = MvZero /\ lowest_cost = ZeroMvRateTerm

\* C11, amended: with the reference plane equal to the input plane and (0,0)
\* among the predictors, diamond search returns a cost that is at most the
\* rate term of (0,0), the SAD of (0,0) being 0; it returns the MV (0,0)
\* with cost 0 when pmv[0] = (0,0) and (0,0) is the first predictor.
C11_IdenticalPlanes ==
  IdenticalPlanes =>
    /\ lowest_cost <= ZeroMvRateTerm
    /\ (search.pmv[1] = MvZero /\ search.predictors[1] = MvZero)
          => best_mv = MvZero /\ lowest_cost = 0 /\ ZeroMvRateTerm = 0

\* A full-pel diamond search over identical textured planes has returned
\* (0,0) with cost 0, with pmv = ((0,0), (16,0)) and several predictors.
C11_Witness ==
  /\ IdenticalPlanes /\ pc = "sub_pixel_me"
  /\ search.p_org.kind = "texture"
  /\ search.pmv = <<MvZero, MV(16, 0)>>
  /\ Len(search.predictors) > 1
  /\ best_mv = MvZero /\ lowest_cost = 0

---------------------------------------------------------------------------
(* Calls of full_search.                                                   *)

MaxFullSpan == 2    \* the search area reaches this many samples from the block

\* The block of the calls: 2 x 2 samples at (8, 8).
FullPo == PlaneOffset(8, 8)
FullBlk == 2

\* (lo, hi) of a search range, relative to the block position.
FullRanges == { <<-MaxFullSpan, MaxFullSpan>>, <<0, MaxFullSpan>>, <<-1, -1>> }

FullInit ==
  /\ Unused
  /\ pc = "full_idle"
  /\ ret = NoRet
  /\ \E rx \in FullRanges, ry \in FullRanges, step \in {1, 2}, content \in {"flat", "same", "far"}, hp \in BOOLEAN, lambda \in {0, 20} :
       \E pmv \in { <<MvZero, MvZero>>, <<MV(8, -8), MV(-3, 2)>> } :
          call = [op |-> "full_search", x_lo |-> FullPo.x + rx[1], x_hi |-> FullPo.x + rx[2],
                  y_lo |-> FullPo.y + ry[1], y_hi |-> FullPo.y + ry[2], step |-> step,
                  p_org |-> InputPlane(content, 1), p_ref |-> RecPlane(content, 1),
                  lambda |-> lambda, pmv |-> pmv, allow_high_precision_mv |-> hp]

FullApply ==
  /\ pc = "full_idle"
  /\ ret' = full_search(call.x_lo, call.x_hi, call.y_lo, call.y_hi, FullBlk, FullBlk, call.p_org, call.p_ref,
                        FullPo, call.step, 8, call.lambda, call.pmv, call.allow_high_precision_mv)
  /\ pc' = "full_done"
  /\ UNCHANGED <<fi, ts, call, best_mv, lowest_cost, search>>

SpecFull == FullInit /\ [][FullApply]_vars

\* The points (y, x) of the search area of the call, the MV of a point and
\* its RD cost, written from the statement.
FullPoints ==
  { <<y, x>> \in (call.y_lo..call.y_hi) \X (call.x_lo..call.x_hi) :
       (y - call.y_lo) % call.step = 0 /\ (x - call.x_lo) % call.step = 0 }
FullMv(pt) == MV(8 * (pt[1] - FullPo.y), 8 * (pt[2] - FullPo.x))
FullCost(pt) ==
  256 * SumRows(Region(call.p_org, FullPo.x, FullPo.y, FullBlk, FullBlk),
                Region(call.p_ref, pt[2], pt[1], FullBlk, FullBlk), 1..FullBlk, 1..FullBlk)
  + call.lambda * Least({ StatedRate(FullMv(pt), call.pmv[1], call.allow_high_precision_mv),
                          StatedRate(FullMv(pt), call.pmv[2], call.allow_high_precision_mv) + 1 })

\* The points of minimum cost, and the first of them in row-major order.
FullMinPoints == { pt \in FullPoints : \A q \in FullPoints : FullCost(pt) <= FullCost(q) }
FullFirstMin ==
  CHOOSE pt \in FullMinPoints :
    \A q \in FullMinPoints : pt[1] < q[1] \/ (pt[1] = q[1] /\ pt[2] <= q[2])

\* C12: full_search outputs the minimum RD cost over every point (y, x) of
\* y_lo..=y_hi x x_lo..=x_hi taken at stride step, with the MV
\* (8*(y - po.y), 8*(x - po.x)) of the first point in row-major order that
\* attains it.
C12_FullSearchFirstMinimum ==
  pc = "full_done" =>
    /\ ~ret.empty
    /\ ret.cost = FullCost(FullFirstMin)
    /\ ret.mv = FullMv(FullFirstMin)
    /\ \A pt \in FullPoints : ret.cost <= FullCost(pt)

\* Every point of an area of several rows and columns has the same cost,
\* and full_search has returned the first point of the first row.
C12_Witness ==
  /\ pc = "full_done"
  /\ call.y_lo < call.y_hi /\ call.x_lo < call.x_hi
  /\ call.p_org.kind = "flat" /\ call.lambda = 0
  /\ FullMinPoints = FullPoints
  /\ ret.mv = FullMv(<<call.y_lo, call.x_lo>>)
  /\ ret.mv # MvZero

---------------------------------------------------------------------------
(* Calls of get_best_predictor.                                            *)

\* Predictor lists: empty, out of range only, a single one, equal costs on
\* flat content ((8,0), (0,8), (-8,0) around pmv (0,0)), out of range first
\* and last, the zero MV late.
BestLists ==
  { <<>>,
    << MV(0, 600), MV(-2000, 8) >>,
    << MV(16, -16) >>,
    << MV(8, 0), MV(0, 8), MV(-8, 0) >>,
    << MV(0, 600), MV(0, 8), MV(8, 0), MvZero >>,
    << MV(-16, 8), MV(8, -8), MV(8, -8), MV(16, 16), MV(0, 600) >>,
    << MV(24, 0), MV(0, 8), MvZero, MV(0, -8), MV(-2000, 8) >> }

\* The block of the calls: 4 x 4 at the frame block offset (1, 0).
BestBo == BlockOffset(1, 0)
BestBlk == 4

BestCtx ==
  diamond_ctx("get_best_predictor", call.allow_high_precision_mv, to_luma_plane_offset(BestBo),
              InputPlane(call.content, 1), RecPlane(call.content, 1), RecPlane(call.content, 1),
              8, call.pmv, call.lambda, get_mv_range(MaxWInB, MaxHInB, BestBo, BestBlk, BestBlk),
              BestBlk, BestBlk, call.subpixel, call.predictors, 0)

BestInit ==
  /\ Unused
  /\ pc = "best_idle"
  /\ ret = NoRet
  /\ \E predictors \in BestLists, content \in {"flat", "same", "shift", "far"}, hp \in BOOLEAN, subpixel \in BOOLEAN, lambda \in {0, 20} :
       \E pmv \in { <<MvZero, MvZero>>, <<MV(8, -8), MV(-3, 2)>> } :
          call = [op |-> "get_best_predictor", predictors |-> predictors, content |-> content,
                  allow_high_precision_mv |-> hp, subpixel |-> subpixel, lambda |-> lambda, pmv |-> pmv]

BestApply ==
  /\ pc = "best_idle"
  /\ ret' = get_best_predictor(BestCtx, call.predictors)
  /\ pc' = "best_done"
  /\ UNCHANGED <<fi, ts, call, best_mv, lowest_cost, search>>

SpecBest == BestInit /\ [][BestApply]_vars

\* The RD cost of predictor i of the call, written from the statement:
\* u64::MAX outside the rectangle, else 256 * sad + lambda * rate.
BestInRange(mv) ==
  /\ -(32 * BestBo.x + 128 + 8 * BestBlk) <= mv.col
  /\ mv.col <= 32 * (MaxWInB - BestBo.x - BestBlk \div 4) + 128 + 8 * BestBlk
  /\ -(32 * BestBo.y + 128 + 8 * BestBlk) <= mv.row
  /\ mv.row <= 32 * (MaxHInB - BestBo.y - BestBlk \div 4) + 128 + 8 * BestBlk
BestSad(mv) ==
  SumRows(Region(InputPlane(call.content, 1), 4 * BestBo.x, 4 * BestBo.y, BestBlk, BestBlk),
          IF call.subpixel
          THEN predict_inter(RecPlane(call.content, 1), PlaneOffset(4 * BestBo.x, 4 * BestBo.y), BestBlk, BestBlk, mv)
          ELSE Region(RecPlane(call.content, 1), 4 * BestBo.x + mv.col \div 8, 4 * BestBo.y + mv.row \div 8, BestBlk, BestBlk),
          1..BestBlk, 1..BestBlk)
BestCost(i) ==
  IF ~BestInRange(call.predictors[i]) THEN U64_MAX
  ELSE 256 * BestSad(call.predictors[i])
       + call.lambda * Least({ StatedRate(call.predictors[i], call.pmv[1], call.allow_high_precision_mv),
                               StatedRate(call.predictors[i], call.pmv[2], call.allow_high_precision_mv) + 1 })

\* The predictors of minimum cost below u64::MAX.
BestMinIdx ==
  { i \in 1..Len(call.predictors) :
       BestCost(i) < U64_MAX /\ \A j \in 1..Len(call.predictors) : BestCost(i) <= BestCost(j) }

\* C13: get_best_predictor sets (center, best_cost) to the predictor of
\* minimum RD cost, the one inserted earliest when several share the
\* minimum; when every predictor is out of range it leaves center = (0,0)
\* with cost u64::MAX.
C13_BestPredictorEarliestMinimum ==
  pc = "best_done" =>
    IF BestMinIdx = {}
    THEN ret.mv = MvZero /\ ret.cost = U64_MAX
    ELSE /\ ret.mv = call.predictors[Least(BestMinIdx)]
         /\ ret.cost = BestCost(Least(BestMinIdx))

\* Three different predictors share the minimum cost and the first of them
\* has been chosen.
C13_Witness ==
  /\ pc = "best_done"
  /\ Cardinality(BestMinIdx) = 3
  /\ Cardinality({ call.predictors[i] : i \in BestMinIdx }) = 3
  /\ ret.mv = call.predictors[1]

---------------------------------------------------------------------------
(* The loop of diamond_me_search, iteration by iteration.                  *)

\* Some compass candidate at the current radius costs strictly less than
\* the center.
CheaperCandidate ==
  \E cand \in DiamondCandidates : get_mv_rd_cost(search, cand) < lowest_cost

\* C14: in the loop of diamond_me_search center_mv_cost never increases from
\* one iteration to the next; the center changes only to a compass candidate
\* at the current radius that costs strictly less than it, the radius then
\* staying as it is; the radius changes only by halving, and only in an
\* iteration where no candidate is strictly cheaper than the center.
C14_DiamondCostNeverIncreases ==
  [][pc = "diamond" =>
       /\ lowest_cost' <= lowest_cost
       /\ best_mv' # best_mv =>
            /\ CheaperCandidate
            /\ best_mv' \in DiamondCandidates
            /\ lowest_cost' = get_mv_rd_cost(search, best_mv')
            /\ lowest_cost' < lowest_cost
            /\ search'.diamond_radius = search.diamond_radius
       /\ search' # search =>
            /\ search' = [search EXCEPT !.diamond_radius = search.diamond_radius \div 2]
            /\ 2 * search'.diamond_radius = search.diamond_radius
            /\ ~CheaperCandidate
            /\ best_mv' = best_mv /\ lowest_cost' = lowest_cost
       /\ (best_mv' = best_mv /\ search' = search) => ~CheaperCandidate]_vars

\* A search has moved its center away from every predictor and has then
\* halved its radius.
C14_Witness ==
  /\ pc = "diamond"
  /\ search.diamond_radius < diamond_radius_start(search.subpixel)
  /\ best_mv # MvZero
  /\ \A i \in 1..Len(search.predictors) : search.predictors[i] # best_mv
  /\ lowest_cost < U64_MAX

---------------------------------------------------------------------------
(* telescopic_subpel_search, step size by step size.                       *)

\* The step sizes in the order stated, and the number already visited.
StatedSteps == IF fi.allow_high_precision_mv THEN <<8, 4, 2, 1>> ELSE <<8, 4, 2>>
StepsVisited == Len(StatedSteps) - Len(search.steps)

\* The in-range candidates of the 3x3 neighbourhood of best_mv at the step
\* size about to be visited, the center left out.
TelescopicCandidates ==
  { cand \in { MV(best_mv.row + Head(search.steps) * di, best_mv.col + Head(search.steps) * dj) :
                  di \in {-1, 0, 1}, dj \in {-1, 0, 1} } :
       cand # best_mv /\ InCallRange(cand) }

\* 256 * sad + lambda * rate of a candidate, on the prediction at cand.
TelescopicCost(cand) ==
  256 * SumRows(Region(search.p_org, search.po.x, search.po.y, search.blk_w, search.blk_h),
                predict_inter(search.p_pred, search.po, search.blk_w, search.blk_h, cand),
                1..search.blk_h, 1..search.blk_w)
  + search.lambda * Least({ StatedRate(cand, search.pmv[1], search.hp),
                            StatedRate(cand, search.pmv[2], search.hp) + 1 })

\* C15: telescopic_subpel_search visits the step sizes 8, 4, 2, and then 1
\* only with high-precision MVs, in this order; it skips the out-of-range
\* candidates of the 3x3 neighbourhood and replaces (best_mv, lowest_cost)
\* only by a candidate of strictly lower cost, so lowest_cost never rises
\* and both stay as they are when no candidate is strictly cheaper.
C15_TelescopicStrictImprovement ==
  /\ [](pc = "telescopic" =>
          /\ StepsVisited \in 0..Len(StatedSteps)
          /\ search.steps = SubSeq(StatedSteps, StepsVisited + 1, Len(StatedSteps)))
  /\ [][(pc # "telescopic" /\ pc' = "telescopic") => search'.steps = StatedSteps]_vars
  /\ [][(pc = "telescopic" /\ search.steps # <<>>) =>
          /\ pc' = "telescopic" /\ search'.steps = Tail(search.steps)
          /\ lowest_cost' <= lowest_cost
          /\ (\A cand \in TelescopicCandidates : TelescopicCost(cand) >= lowest_cost)
                => best_mv' = best_mv /\ lowest_cost' = lowest_cost
          /\ best_mv' # best_mv =>
                /\ best_mv' \in TelescopicCandidates
                /\ lowest_cost' = TelescopicCost(best_mv')
                /\ lowest_cost' < lowest_cost
                /\ \A cand \in TelescopicCandidates : lowest_cost' <= TelescopicCost(cand)]_vars
  /\ [][(pc = "telescopic" /\ search.steps = <<>>) =>
          pc' = "me_return" /\ best_mv' = best_mv /\ lowest_cost' = lowest_cost]_vars

\* With high-precision MVs the steps 8, 4, 2 have been visited, step 1 is
\* next, and best_mv has left the full-pel grid.
C15_Witness ==
  /\ pc = "telescopic" /\ search.steps = <<1>>
  /\ fi.allow_high_precision_mv
  /\ (best_mv.row % 8 # 0 \/ best_mv.col % 8 # 0)
  /\ lowest_cost < U64_MAX

---------------------------------------------------------------------------
(* Calls of adjust_bo.                                                     *)

MaxAdjBo == 5       \* largest block offset component handed to adjust_bo
MaxAdjMi == 4       \* largest tile width and height, in 4x4 units
MaxAdjBsize == 6    \* block sizes 4x4 .. 16x8 of the enumeration

AdjInit ==
  /\ Unused
  /\ pc = "adj_idle"
  /\ ret = NoRet
  /\ \E x \in 0..MaxAdjBo, y \in 0..MaxAdjBo, mi_width \in 1..MaxAdjMi, mi_height \in 1..MaxAdjMi, i \in 1..MaxAdjBsize :
       call = [op |-> "adjust_bo", bo |-> BlockOffset(x, y), mi_width |-> mi_width, mi_height |-> mi_height,
               blk_w |-> BlockSizes[i][1], blk_h |-> BlockSizes[i][2]]

AdjApply ==
  /\ pc = "adj_idle"
  /\ ret' = adjust_bo(call.bo, call.mi_width, call.mi_height, call.blk_w, call.blk_h)
  /\ pc' = "adj_done"
  /\ UNCHANGED <<fi, ts, call, best_mv, lowest_cost, search>>

SpecAdjust == AdjInit /\ [][AdjApply]_vars

\* clamp(v, lo, hi): v moved into lo..hi, lo winning when hi < lo.
StatedClamp(v, lo, hi) == IF v > hi THEN (IF hi < lo THEN lo ELSE hi) ELSE IF v < lo THEN lo ELSE v

\* The result is the clamped offset.
AdjIsClamp ==
  /\ ret.x = StatedClamp(call.bo.x, 0, call.mi_width - call.blk_w \div 4)
  /\ ret.y = StatedClamp(call.bo.y, 0, call.mi_height - call.blk_h \div 4)

\* The adjusted block fits inside the boundaries.
AdjFits ==
  /\ ret.x + call.blk_w \div 4 <= call.mi_width
  /\ ret.y + call.blk_h \div 4 <= call.mi_height

---------------------------------------------------------------------------
(* The seeds of estimate_motion_ss2.                                       *)

\* The search of one seed of me_ss2 has returned, or estimate_motion_ss2 has
\* returned after the search of its last seed.
SeedSearched ==
  /\ pc \in {"me_ss2", "done"}
  /\ call.op = "estimate_motion_ss2"
  /\ search.stage = "me_ss2"
  /\ search.idx > 0

\* C17: in estimate_motion_ss2, with DiamondSearch::me_ss2 and with
\* FullSearch::me_ss2, (best_mv, lowest_cost) never gets worse from one
\* seed's search to the next: after the search of each present seed
\* lowest_cost is at most what it was before it, so that the MV finally
\* returned has the minimum cost over the searches of all present seeds.
C17_SeedsKeepTheBest ==
  SeedSearched => lowest_cost <= search.entry_cost

---------------------------------------------------------------------------
(* The dispatch of nasm::get_sad.                                          *)

\* usize::ilog: the number of bits needed to write n.
RECURSIVE ilog(_)
ilog(n) == IF n = 0 THEN 0 ELSE 1 + ilog(n \div 2)

\* The keys (blk_w, blk_h) of the match of sad_avx2.
sad_avx2_keys == { <<4, 4>>, <<4, 8>>, <<4, 16>>, <<8, 4>>, <<8, 8>>, <<8, 16>>, <<8, 32>>, <<16, 4>>, <<16, 8>>, <<16, 16>>, <<16, 32>>, <<16, 64>>, <<32, 8>>, <<32, 16>>, <<32, 32>>, <<32, 64>>, <<64, 16>>, <<64, 32>>, <<64, 64>>, <<64, 128>>, <<128, 64>>, <<128, 128>> }

\* sad_avx2: the kernel of the key, or unreachable!().
sad_avx2(blk_w, blk_h) ==
  IF <<blk_w, blk_h>> \in sad_avx2_keys
  THEN [path |-> "sad_avx2", abort |-> "no", kernel_w |-> blk_w, kernel_h |-> blk_h]
  ELSE [path |-> "sad_avx2", abort |-> "unreachable", kernel_w |-> 0, kernel_h |-> 0]

\* The square kernel the match on step_size.ilog() selects in sad_hbd_ssse3
\* and in sad_sse2: 4, 8, .., 128 for 3 .. 8, and 128 for everything else.
kernel_of_ilog(l) == IF l >= 3 /\ l <= 8 THEN 2 ^ (l - 1) ELSE 128

\* sad_hbd_ssse3: the assertion, then the kernel of the step size.
sad_hbd_ssse3(blk_w, blk_h, bit_depth) ==
  IF ~(blk_h >= 4 /\ blk_w >= 4)
  THEN [path |-> "sad_hbd_ssse3", abort |-> "assert", kernel_w |-> 0, kernel_h |-> 0]
  ELSE LET step_size == Min(Min(blk_h, blk_w), IF bit_depth <= 10 THEN 128 ELSE 4)
           k == kernel_of_ilog(ilog(step_size))
       IN  [path |-> "sad_hbd_ssse3", abort |-> "no", kernel_w |-> k, kernel_h |-> k]

\* sad_sse2: the aligned 16x16 kernel, or the kernel of the step size, which
\* the alignment of org_ptr (its number of trailing zero bits) bounds.
sad_sse2(blk_w, blk_h, ptr_align_log2) ==
  IF blk_w = 16 /\ blk_h = 16 /\ ptr_align_log2 >= 4
  THEN [path |-> "sad_sse2", abort |-> "no", kernel_w |-> 16, kernel_h |-> 16]
  ELSE LET ptr_align == 2 ^ Max(ptr_align_log2, 3)
           step_size == Min(Min(blk_h, blk_w), ptr_align)
           k == kernel_of_ilog(ilog(step_size))
       IN  [path |-> "sad_sse2", abort |-> "no", kernel_w |-> k, kernel_h |-> k]

\* nasm::get_sad without the tests blk_h >= 4 && blk_w >= 4.
nasm_get_sad_unguarded(size_of_T, ssse3, avx2, sse2, blk_w, blk_h, bit_depth, ptr_align_log2) ==
  IF size_of_T = 2 /\ ssse3 THEN sad_hbd_ssse3(blk_w, blk_h, bit_depth)
  ELSE IF size_of_T = 1 /\ avx2 THEN sad_avx2(blk_w, blk_h)
  ELSE IF size_of_T = 1 /\ sse2 THEN sad_sse2(blk_w, blk_h, ptr_align_log2)
  ELSE [path |-> "native", abort |-> "no", kernel_w |-> 0, kernel_h |-> 0]

\* nasm::get_sad on x86_64 with the nasm feature: the first SIMD path whose
\* pixel size, detected CPU feature and size test hold, else the scalar path,
\* native::get_sad.
nasm_get_sad(size_of_T, ssse3, avx2, sse2, blk_w, blk_h, bit_depth, ptr_align_log2) ==
  IF size_of_T = 2 /\ ssse3 /\ blk_h >= 4 /\ blk_w >= 4 THEN sad_hbd_ssse3(blk_w, blk_h, bit_depth)
  ELSE IF size_of_T = 1 /\ avx2 /\ blk_h >= 4 /\ blk_w >= 4 THEN sad_avx2(blk_w, blk_h)
  ELSE IF size_of_T = 1 /\ sse2 /\ blk_h >= 4 /\ blk_w >= 4 THEN sad_sse2(blk_w, blk_h, ptr_align_log2)
  ELSE [path |-> "native", abort |-> "no", kernel_w |-> 0, kernel_h |-> 0]

\* The calls: every BlockSize, its dimensions shifted right as at the calls
\* of get_sad (by 0 at full resolution, 1 in me_ss2, 2 in
\* estimate_motion_ss4), both pixel sizes, the detected CPU features, and the
\* alignment of org_ptr as its number of trailing zero bits.
DispatchInit ==
  /\ Unused
  /\ pc = "dispatch_idle"
  /\ ret = NoRet
  /\ \E i \in 1..Len(BlockSizes), shift \in {0, 1, 2}, size_of_T \in {1, 2}, ssse3 \in BOOLEAN, avx2 \in BOOLEAN, sse2 \in BOOLEAN, ptr_align_log2 \in 0..4 :
       \E bit_depth \in IF size_of_T = 1 THEN {8} ELSE {10, 12} :
         call = [op |-> "nasm::get_sad", bsize |-> BlockSizes[i], shift |-> shift, size_of_T |-> size_of_T,
                 ssse3 |-> ssse3, avx2 |-> avx2, sse2 |-> sse2, bit_depth |-> bit_depth, ptr_align_log2 |-> ptr_align_log2,
                 blk_w |-> Shr(BlockSizes[i][1], shift), blk_h |-> Shr(BlockSizes[i][2], shift)]

DispatchApply ==
  /\ pc = "dispatch_idle"
  /\ ret' = nasm_get_sad(call.size_of_T, call.ssse3, call.avx2, call.sse2, call.blk_w, call.blk_h, call.bit_depth, call.ptr_align_log2)
  /\ pc' = "dispatch_done"
  /\ UNCHANGED <<fi, ts, call, best_mv, lowest_cost, search>>

SpecDispatch == DispatchInit /\ [][DispatchApply]_vars

\* C18: for every BlockSize of the enumeration at full, half and quarter
\* resolution the dispatch of get_sad never aborts: a block with a dimension
\* below 4 takes the scalar path, a block with both dimensions at least 4 has
\* its key (blk_w, blk_h) in the table of sad_avx2, and neither unreachable!()
\* nor the assertion blk_h >= 4 && blk_w >= 4 is hit.
C18_DispatchNeverAborts ==
  pc = "dispatch_done" =>
    /\ ret.abort = "no"
    /\ (call.blk_w < 4 \/ call.blk_h < 4) => ret.path = "native"
    /\ (call.blk_w >= 4 /\ call.blk_h >= 4) => <<call.blk_w, call.blk_h>> \in sad_avx2_keys

\* A 16x4 block of 8-bit pixels at half resolution, 8x2, has taken the scalar
\* path on a CPU with AVX2.
C18_Witness ==
  /\ pc = "dispatch_done"
  /\ call.bsize = <<16, 4>> /\ call.shift = 1
  /\ call.size_of_T = 1 /\ call.avx2
  /\ ret.path = "native"

---------------------------------------------------------------------------
(* Calls of get_mv_range, and the cost of the first predictor under the    *)
(* range it returns.                                                       *)

MaxCostInB == 8     \* largest frame width and height, in 4x4 units, at which the cost is computed

\* The frame widths and heights of the calls, in 4x4 units.
RangeDims == {1, 2, 3, 4, 8, 16, 32, 33}

RangeInit ==
  /\ Unused
  /\ pc = "range_idle"
  /\ ret = NoRet
  /\ \E w_in_b \in RangeDims, h_in_b \in RangeDims, i \in 1..Len(BlockSizes) :
       \E x \in 0..(w_in_b - BlockSizes[i][1] \div MI_SIZE), y \in 0..(h_in_b - BlockSizes[i][2] \div MI_SIZE) :
         call = [op |-> "get_mv_range", w_in_b |-> w_in_b, h_in_b |-> h_in_b, bo |-> BlockOffset(x, y),
                 blk_w |-> BlockSizes[i][1], blk_h |-> BlockSizes[i][2]]

RangeApply ==
  /\ pc = "range_idle"
  /\ ret' = get_mv_range(call.w_in_b, call.h_in_b, call.bo, call.blk_w, call.blk_h)
  /\ pc' = "range_done"
  /\ UNCHANGED <<fi, ts, call, best_mv, lowest_cost, search>>

\* get_subset_predictors, the halving of me_ss2 when shift = 1, and
\* get_mv_rd_cost for the first predictor of the list, at full resolution
\* (shift 0, as in full_pixel_me) or at half resolution (shift 1, as in
\* me_ss2).
RangeFirstCost ==
  /\ pc = "range_done"
  /\ call.w_in_b <= MaxCostInB /\ call.h_in_b <= MaxCostInB
  /\ \E shift \in {0, 1}, content \in {"same", "far"}, seed \in {0, 3} :
       LET tile_mvs == TileMotionVectors(FrameMotionVectors(call.w_in_b, call.h_in_b, seed), 0, 0, call.w_in_b, call.h_in_b)
           found == get_subset_predictors(call.bo, MV(-19, 45), tile_mvs, [some |-> FALSE], 0).predictors
           predictors == IF shift = 1 THEN halve_predictors(found) ELSE found
           frame_po == to_luma_plane_offset(call.bo)
           c == diamond_ctx("get_mv_rd_cost", FALSE, PlaneOffset(Shr(frame_po.x, shift), Shr(frame_po.y, shift)),
                            InputPlane(content, 2 ^ shift), RecPlane(content, 2 ^ shift), RecPlane(content, 2 ^ shift),
                            8, <<MvZero, MvZero>>, 20, RangeShr(ret, shift),
                            Shr(call.blk_w, shift), Shr(call.blk_h, shift), FALSE, predictors, 0)
       IN  /\ best_mv' = predictors[1]
           /\ lowest_cost' = get_mv_rd_cost(c, predictors[1])
           /\ search' = [stage |-> "get_mv_rd_cost", shift |-> shift, content |-> content, predictors |-> predictors]
  /\ pc' = "range_cost"
  /\ UNCHANGED <<fi, ts, call, ret>>

RangeNext == RangeApply \/ RangeFirstCost

SpecRange == RangeInit /\ [][RangeNext]_vars

\* The range contains the zero MV in both dimensions.
ZeroInside(rng) ==
  /\ rng.mvx_min <= 0 /\ 0 <= rng.mvx_max
  /\ rng.mvy_min <= 0 /\ 0 <= rng.mvy_max

\* C19: for every frame size, block size and block offset at which the block
\* lies inside the frame, get_mv_range returns mvx_min <= 0 <= mvx_max and
\* mvy_min <= 0 <= mvy_max, and the same holds after the halving (>> 1) of
\* the half-resolution pass; the zero MV, the first predictor of
\* get_subset_predictors, is then in range and its cost is below u64::MAX.
C19_ZeroMvInRange ==
  /\ pc \in {"range_done", "range_cost"} => ZeroInside(ret) /\ ZeroInside(RangeShr(ret, 1))
  /\ pc = "range_cost" =>
       /\ best_mv = MvZero
       /\ InRange(RangeShr(ret, search.shift), best_mv)
       /\ lowest_cost < U64_MAX

\* The zero MV has been costed at half resolution for a block that ends at
\* the right and bottom frame edges, away from the left and top edges, with
\* other predictors behind it in the list.
C19_Witness ==
  /\ pc = "range_cost"
  /\ search.shift = 1
  /\ call.bo.x > 0 /\ call.bo.y > 0
  /\ call.bo.x + call.blk_w \div MI_SIZE = call.w_in_b
  /\ call.bo.y + call.blk_h \div MI_SIZE = call.h_in_b
  /\ Len(search.predictors) > 2
  /\ lowest_cost > 0 /\ lowest_cost < U64_MAX

=============================================================================
